---- MODULE Spec2Model ----
(***************************************************************************)
(* Model of the go-jsonplaceholder-aggregator pipelines.                   *)
(*                                                                         *)
(* Spec      : the final pipeline (src/unnamed/part_002): one fetchData    *)
(*             goroutine per endpoint, a pool of parse workers, the two    *)
(*             closer goroutines, the error-reporting goroutine and main.  *)
(* SpecStore : the AggregatedData store on its own: Add* merges of batches *)
(*             drawn from bounded sets, followed by GetEnrichedUsers.      *)
(***************************************************************************)
EXTENDS Integers, Sequences, FiniteSets, TLC

(***************************************************************************)
(* Bounds of the model.                                                    *)
(***************************************************************************)
\* longest endpoints list main is run with (the source's list has 6 entries)
MaxEndpoints == 2
\* size of the parse worker pool (parseWorkers = 6 in the source)
NumWorkers == 2
\* ids of users, posts, albums, todos, comments and photos in decoded batches
MaxUser == 2
MaxPost == 3
MaxAlbum == 1
MaxTodo == 1
MaxComment == 1
MaxPhoto == 1
\* longest batch handed to one Add* call, and GetEnrichedUsers calls in a row
MaxBatch == 3
MaxCalls == 2
\* goroutines calling into one AggregatedData at the same time
NumGoroutines == 3
\* records per batch of such a goroutine
LockBatchLen == 2

(***************************************************************************)
(* Endpoints and the source registry.                                      *)
(***************************************************************************)
GET_USERS == "https://jsonplaceholder.typicode.com/users"
GET_POSTS == "https://jsonplaceholder.typicode.com/posts"
GET_COMMENTS == "https://jsonplaceholder.typicode.com/comments"
GET_ALBUMS == "https://jsonplaceholder.typicode.com/albums"
GET_PHOTOS == "https://jsonplaceholder.typicode.com/photos"
GET_TODOS == "https://jsonplaceholder.typicode.com/todos"

\* the endpoints list of main, in the order of the source
AllEndpoints == <<GET_USERS, GET_POSTS, GET_COMMENTS, GET_ALBUMS, GET_PHOTOS, GET_TODOS>>

typeMap ==
  (GET_USERS :> "user") @@ (GET_POSTS :> "post") @@ (GET_COMMENTS :> "comment") @@
  (GET_ALBUMS :> "album") @@ (GET_PHOTOS :> "photo") @@ (GET_TODOS :> "todo")

getType(endpoint) ==
  IF endpoint \in DOMAIN typeMap THEN typeMap[endpoint] ELSE "unknown"

\* the type parameter T the parse worker's switch picks for an endpoint
ElemOf(endpoint) ==
  CASE endpoint = GET_USERS -> "User"
    [] endpoint = GET_POSTS -> "Post"
    [] endpoint = GET_COMMENTS -> "Comment"
    [] endpoint = GET_ALBUMS -> "Album"
    [] endpoint = GET_PHOTOS -> "Photo"
    [] endpoint = GET_TODOS -> "Todo"
    [] OTHER -> "none"

(***************************************************************************)
(* Records.  Only the fields the program reads are kept: the id, the       *)
(* foreign key and, for a user, the name copied into the summary.          *)
(***************************************************************************)
NameOf(id) == <<"name", id>>

User(id) == [ID |-> id, Name |-> NameOf(id)]
Post(id, uid) == [ID |-> id, UserID |-> uid]
Comment(id, pid) == [ID |-> id, PostID |-> pid]
Album(id, uid) == [ID |-> id, UserID |-> uid]
Photo(id, aid) == [ID |-> id, AlbumID |-> aid]
Todo(id, uid) == [ID |-> id, UserID |-> uid]

RECURSIVE SeqSum(_)
SeqSum(s) == IF s = <<>> THEN 0 ELSE Head(s) + SeqSum(Tail(s))

RECURSIVE SetSum(_, _)
SetSum(S, f) ==
  IF S = {} THEN 0
  ELSE LET x == CHOOSE y \in S : TRUE IN f[x] + SetSum(S \ {x}, f)

Range(s) == {s[i] : i \in DOMAIN s}

\* all sequences without repetition over the set S
Perms(S) ==
  {p \in [1..Cardinality(S) -> S] : \A i, j \in 1..Cardinality(S) : p[i] = p[j] => i = j}

(***************************************************************************)
(* AggregatedData: a Go map is a function on the set of its keys; reading  *)
(* a missing key of a bucket map yields the nil slice.                     *)
(***************************************************************************)
Bucket(m, k) == IF k \in DOMAIN m THEN m[k] ELSE <<>>

MapSet(m, k, v) == [x \in DOMAIN m \cup {k} |-> IF x = k THEN v ELSE m[x]]

EmptyMap == [x \in {} |-> <<>>]

NewAggregatedData ==
  [Users |-> EmptyMap, Posts |-> EmptyMap, Albums |-> EmptyMap, Todos |-> EmptyMap,
   Comments |-> EmptyMap, Photos |-> EmptyMap, PostsByUser |-> EmptyMap,
   AlbumsByUser |-> EmptyMap]

RECURSIVE AddUsers(_, _)
AddUsers(ad, users) ==
  IF users = <<>> THEN ad
  ELSE LET u == Head(users) IN
       AddUsers([ad EXCEPT !.Users = MapSet(ad.Users, u.ID, u)], Tail(users))

\* faulty variant: the bucket is overwritten instead of appended to
RECURSIVE AddPosts_Overwrite(_, _)
AddPosts_Overwrite(ad, posts) ==
  IF posts = <<>> THEN ad
  ELSE LET p == Head(posts) IN
       AddPosts_Overwrite([ad EXCEPT
                             !.Posts = MapSet(ad.Posts, p.UserID, <<p>>),
                             !.PostsByUser = MapSet(ad.PostsByUser, p.UserID, <<p>>)],
                          Tail(posts))

RECURSIVE AddPosts(_, _)
AddPosts(ad, posts) ==
  IF posts = <<>> THEN ad
  ELSE LET p == Head(posts) IN
       AddPosts([ad EXCEPT
                   !.Posts = MapSet(ad.Posts, p.UserID, Append(Bucket(ad.Posts, p.UserID), p)),
                   !.PostsByUser = MapSet(ad.PostsByUser, p.UserID,
                                          Append(Bucket(ad.PostsByUser, p.UserID), p))],
                Tail(posts))

RECURSIVE AddAlbums(_, _)
AddAlbums(ad, albums) ==
  IF albums = <<>> THEN ad
  ELSE LET a == Head(albums) IN
       AddAlbums([ad EXCEPT
                    !.Albums = MapSet(ad.Albums, a.UserID, Append(Bucket(ad.Albums, a.UserID), a)),
                    !.AlbumsByUser = MapSet(ad.AlbumsByUser, a.UserID,
                                            Append(Bucket(ad.AlbumsByUser, a.UserID), a))],
                 Tail(albums))

RECURSIVE AddTodos(_, _)
AddTodos(ad, todos) ==
  IF todos = <<>> THEN ad
  ELSE LET t == Head(todos) IN
       AddTodos([ad EXCEPT
                   !.Todos = MapSet(ad.Todos, t.UserID, Append(Bucket(ad.Todos, t.UserID), t))],
                Tail(todos))

RECURSIVE AddComments(_, _)
AddComments(ad, comments) ==
  IF comments = <<>> THEN ad
  ELSE LET c == Head(comments) IN
       AddComments([ad EXCEPT
                      !.Comments = MapSet(ad.Comments, c.PostID,
                                          Append(Bucket(ad.Comments, c.PostID), c))],
                   Tail(comments))

RECURSIVE AddPhotos(_, _)
AddPhotos(ad, photos) ==
  IF photos = <<>> THEN ad
  ELSE LET p == Head(photos) IN
       AddPhotos([ad EXCEPT
                    !.Photos = MapSet(ad.Photos, p.AlbumID,
                                      Append(Bucket(ad.Photos, p.AlbumID), p))],
                 Tail(photos))

\* faulty variant: the comments are looked up under the user's id, not the posts' ids
EnrichedUserOf_CommentsByUser(ad, user) ==
  LET albums == Bucket(ad.AlbumsByUser, user.ID)
      photoCount == SeqSum([i \in DOMAIN albums |-> Len(Bucket(ad.Photos, albums[i].ID))])
  IN [ID |-> user.ID, Name |-> user.Name,
      PostCount |-> Len(Bucket(ad.Posts, user.ID)),
      AlbumCount |-> Len(Bucket(ad.Albums, user.ID)),
      TodoCount |-> Len(Bucket(ad.Todos, user.ID)),
      CommentCount |-> Len(Bucket(ad.Comments, user.ID)),
      PhotoCount |-> photoCount]

\* the body of GetEnrichedUsers' loop for one user of ad.Users
EnrichedUserOf(ad, user) ==
  LET posts == Bucket(ad.PostsByUser, user.ID)
      albums == Bucket(ad.AlbumsByUser, user.ID)
      commentCount == SeqSum([i \in DOMAIN posts |-> Len(Bucket(ad.Comments, posts[i].ID))])
      photoCount == SeqSum([i \in DOMAIN albums |-> Len(Bucket(ad.Photos, albums[i].ID))])
  IN [ID |-> user.ID, Name |-> user.Name,
      PostCount |-> Len(Bucket(ad.Posts, user.ID)),
      AlbumCount |-> Len(Bucket(ad.Albums, user.ID)),
      TodoCount |-> Len(Bucket(ad.Todos, user.ID)),
      CommentCount |-> commentCount,
      PhotoCount |-> photoCount]

\* faulty variant: commentCount is declared outside the loop and never reset
GetEnrichedUsers_Accumulate(ad, order) ==
  [i \in DOMAIN order |->
     [EnrichedUserOf(ad, ad.Users[order[i]]) EXCEPT
        !.CommentCount =
          SeqSum([j \in 1..i |-> EnrichedUserOf(ad, ad.Users[order[j]]).CommentCount])]]

\* GetEnrichedUsers ranging over ad.Users in the iteration order `order`
\* (a Go map is ranged over in an unspecified order)
GetEnrichedUsers(ad, order) ==
  [i \in DOMAIN order |-> EnrichedUserOf(ad, ad.Users[order[i]])]

(***************************************************************************)
(* Response bodies and json.Unmarshal.  A body is Malformed (it does not   *)
(* decode into a slice) or a JSON array of records of the endpoint's kind. *)
(***************************************************************************)
Malformed == [json |-> "malformed"]

JSONArray(items) == [json |-> "array", items |-> items]

\* the arrays the model lets an endpoint answer with
SampleItems(endpoint) ==
  CASE endpoint = GET_USERS -> {<<User(1), User(2)>>}
    [] endpoint = GET_POSTS -> {<<Post(1, 1), Post(2, 1), Post(3, 2)>>}
    [] endpoint = GET_COMMENTS -> {<<Comment(1, 1)>>}
    [] endpoint = GET_ALBUMS -> {<<Album(1, 2), Album(2, 2)>>}
    [] endpoint = GET_PHOTOS -> {<<Photo(1, 2)>>}
    [] endpoint = GET_TODOS -> {<<Todo(1, 1)>>}
    [] OTHER -> {}

Bodies(endpoint) == {Malformed} \cup {JSONArray(it) : it \in SampleItems(endpoint)}

\* json.Unmarshal(rawData.Data, &data) with data of type []T
Unmarshal(body, T) ==
  IF body.json = "array"
    THEN [err |-> "nil", data |-> [elem |-> T, items |-> body.items]]
    ELSE [err |-> "decode", data |-> [elem |-> T, items |-> <<>>]]

\* what client.Get followed by io.ReadAll can yield for an endpoint
StatusCodes == {200, 500}

FetchOutcomes(endpoint) ==
  {[kind |-> k, status |-> 0, body |-> Malformed] : k \in {"neterr", "timeout"}}
  \cup {[kind |-> "readerr", status |-> 200, body |-> Malformed]}
  \cup {[kind |-> "resp", status |-> st, body |-> b] : st \in StatusCodes, b \in Bodies(endpoint)}

Pending == [kind |-> "pending", status |-> 0, body |-> Malformed]

RawResponse(endpoint, data) == [Endpoint |-> endpoint, Data |-> data]

ParsedData(data, endpoint) == [Data |-> data, Endpoint |-> endpoint, Type |-> getType(endpoint)]

PipelineError(stage, endpoint, err) == [Stage |-> stage, Endpoint |-> endpoint, Error |-> err]

NoMsg == [Endpoint |-> "none"]

(***************************************************************************)
(* Channels: a FIFO buffer of capacity cap and the closed flag.            *)
(***************************************************************************)
\* faulty variant: make(chan T) without a capacity
MakeChan_Unbuffered(cap) == [buf |-> <<>>, cap |-> 0, closed |-> FALSE]

MakeChan(cap) == [buf |-> <<>>, cap |-> cap, closed |-> FALSE]

\* a send proceeds when the buffer has room; on a closed channel it panics
CanSend(ch) == ch.closed \/ Len(ch.buf) < ch.cap

\* faulty variant: the send statement is written twice
Send_Twice(ch, m) == IF ch.closed THEN ch ELSE [ch EXCEPT !.buf = Append(Append(@, m), m)]

Send(ch, m) == IF ch.closed THEN ch ELSE [ch EXCEPT !.buf = Append(@, m)]

CanRecv(ch) == ch.buf # <<>>

\* faulty variant: the loop ends as soon as the buffer is empty
Drained_Empty(ch) == ch.buf = <<>>

\* a range loop over ch ends when ch is closed and drained
Drained(ch) == ch.closed /\ ch.buf = <<>>

\* faulty variant: a receive that leaves the message in the buffer
Recv_Peek(ch) == ch

Recv(ch) == [ch EXCEPT !.buf = Tail(@)]

Close(ch) == [ch EXCEPT !.closed = TRUE]

(***************************************************************************)
(* State of the final pipeline.                                            *)
(***************************************************************************)
VARIABLES
  endpoints,    \* main's endpoints list
  rawCh, parsedCh, errCh,
  wg, parseWg, errWg,    \* WaitGroup counters
  mpc,          \* main's position
  parsed,       \* the ParsedData main's loop holds
  aggregated,   \* the AggregatedData store
  enriched,     \* results of the GetEnrichedUsers calls made since the last Add*
  fpc,          \* position of each fetchData goroutine
  fmsg,         \* the outcome a fetchData goroutine got
  rcpc,         \* goroutine { wg.Wait(); close(rawCh) }
  wpc,          \* position of each parse worker
  wraw,         \* the RawResponse a parse worker holds
  pcpc,         \* goroutine { parseWg.Wait(); close(parsedCh); close(errCh) }
  epc,          \* the error-reporting goroutine
  fetchErr, parseErr,    \* its counters
  tally,        \* the totals it printed
  panicked,     \* a goroutine sent on (or closed) a closed channel
  sent,         \* history: messages sent so far, per channel and endpoint
  received,     \* history: workers that received each endpoint's RawResponse
  merges,       \* history: Add* calls main made, per endpoint
  merged,       \* history: the records handed to Add* so far, per record kind
  printed,      \* the "Unknown type for endpoint" lines main printed
  mu,           \* the RWMutex of the AggregatedData
  gs,           \* goroutines calling Add* and GetEnrichedUsers concurrently
  processed,    \* the select loop's counter (select-loop variant)
  rawNil,       \* main has set its rawCh to nil (select-loop variant)
  errNil,       \* main has set its errCh to nil (select-loop variant)
  mraw,         \* the RawResponse the select loop holds (select-loop variant)
  enrichedCh,   \* the channel of EnrichedUser (global-map variant)
  upc,          \* position of each enrichment goroutine (global-map variant)
  got           \* history: what main's loops received, per loop

vars ==
  <<endpoints, rawCh, parsedCh, errCh, wg, parseWg, errWg, mpc, parsed, aggregated,
    enriched, fpc, fmsg, rcpc, wpc, wraw, pcpc, epc, fetchErr, parseErr, tally,
    panicked, sent, received, merges, merged, printed, mu, gs, processed, rawNil,
    errNil, mraw, enrichedCh, upc, got>>

lockVars == <<mu, gs>>

selectVars == <<processed, rawNil, errNil, mraw>>

variantVars == <<enrichedCh, upc, got>>

\* nothing received yet
NoneGot == [data |-> <<>>, errs |-> <<>>, final |-> <<>>]

\* the zero value of sync.RWMutex
RWMutex == [writers |-> 0, readers |-> 0]

Workers == 1..NumWorkers

Eps == Range(endpoints)

\* the lists main may be run with: the source's list cut down to at most
\* MaxEndpoints entries, order kept
EndpointLists ==
  {l \in UNION {[1..n -> Range(AllEndpoints)] : n \in 0..MaxEndpoints} :
     \A i, j \in DOMAIN l : i < j =>
       \E a, b \in DOMAIN AllEndpoints : a < b /\ AllEndpoints[a] = l[i] /\ AllEndpoints[b] = l[j]}

NoTally == [fetch |-> -1, parse |-> -1]

Kinds == {"User", "Post", "Comment", "Album", "Photo", "Todo"}

NoneMerged == [k \in Kinds |-> {}]

NoSent == [raw |-> 0, fetchErr |-> 0, parsed |-> 0, parseErr |-> 0, otherErr |-> 0]

\* history: count a message under the endpoint it names, when it was sent
NoteRaw(h, m, wasSent) == IF wasSent THEN [h EXCEPT ![m.Endpoint].raw = @ + 1] ELSE h

NoteParsed(h, m, wasSent) == IF wasSent THEN [h EXCEPT ![m.Endpoint].parsed = @ + 1] ELSE h

NoteErr(h, m, wasSent) ==
  IF ~wasSent THEN h
  ELSE CASE m.Stage = "fetch" -> [h EXCEPT ![m.Endpoint].fetchErr = @ + 1]
         [] m.Stage = "parse" -> [h EXCEPT ![m.Endpoint].parseErr = @ + 1]
         [] OTHER -> [h EXCEPT ![m.Endpoint].otherErr = @ + 1]

Init ==
  /\ endpoints \in EndpointLists
  /\ rawCh = MakeChan(Len(endpoints))
  /\ parsedCh = MakeChan(Len(endpoints))
  /\ errCh = MakeChan(Len(endpoints) * 2)
  /\ wg = 0 /\ parseWg = 0 /\ errWg = 0
  /\ mpc = "start"
  /\ parsed = NoMsg
  /\ aggregated = NewAggregatedData
  /\ enriched = <<>>
  /\ fpc = [e \in Eps |-> "idle"]
  /\ fmsg = [e \in Eps |-> Pending]
  /\ rcpc = "idle"
  /\ wpc = [w \in Workers |-> "idle"]
  /\ wraw = [w \in Workers |-> NoMsg]
  /\ pcpc = "idle"
  /\ epc = "idle"
  /\ fetchErr = 0 /\ parseErr = 0
  /\ tally = NoTally
  /\ panicked = FALSE
  /\ sent = [e \in Eps |-> NoSent]
  /\ received = [e \in Eps |-> <<>>]
  /\ merges = [e \in Eps |-> 0]
  /\ merged = NoneMerged
  /\ printed = <<>>
  /\ mu = RWMutex
  /\ gs = <<>>
  /\ processed = 0 /\ rawNil = FALSE /\ errNil = FALSE
  /\ mraw = NoMsg
  /\ enrichedCh = MakeChan(0)
  /\ upc = <<>>
  /\ got = NoneGot

\* a panic ends the process, and so does the return of main
Running == ~panicked /\ mpc # "done"

(***************************************************************************)
(* main, part 1: the three setup blocks.  Each WaitGroup.Add precedes the  *)
(* go statements of its block, as in the source; the goroutines of a block *)
(* are started in one step.                                                *)
(***************************************************************************)
\* errWg.Add(1); go func() { ... range errCh ... }()
MainStartErrors ==
  /\ Running
  /\ mpc = "start"
  /\ errWg' = errWg + 1
  /\ epc' = "recv"
  /\ mpc' = "fetchStage"
  /\ UNCHANGED <<endpoints, rawCh, parsedCh, errCh, wg, parseWg, parsed, aggregated,
                 enriched, fpc, fmsg, rcpc, wpc, wraw, pcpc, fetchErr, parseErr, tally,
                 panicked, sent, received, merges,
                 merged,
                 printed, lockVars, selectVars, variantVars>>

\* wg.Add(len(endpoints)); go fetchData(e, ...) for each e; go func() { wg.Wait(); close(rawCh) }()
MainFetchStage ==
  /\ Running
  /\ mpc = "fetchStage"
  /\ wg' = wg + Len(endpoints)
  /\ fpc' = [e \in Eps |-> "get"]
  /\ rcpc' = "wait"
  /\ mpc' = "parseStage"
  /\ UNCHANGED <<endpoints, rawCh, parsedCh, errCh, parseWg, errWg, parsed, aggregated,
                 enriched, fmsg, wpc, wraw, pcpc, epc, fetchErr, parseErr, tally,
                 panicked, sent, received, merges,
                 merged,
                 printed, lockVars, selectVars, variantVars>>

\* parseWg.Add(parseWorkers); the worker goroutines; the goroutine closing parsedCh and errCh
MainParseStage ==
  /\ Running
  /\ mpc = "parseStage"
  /\ parseWg' = parseWg + NumWorkers
  /\ wpc' = [w \in Workers |-> "recv"]
  /\ pcpc' = "wait"
  /\ mpc' = "recv"
  /\ UNCHANGED <<endpoints, rawCh, parsedCh, errCh, wg, errWg, parsed, aggregated,
                 enriched, fpc, fmsg, rcpc, wraw, epc, fetchErr, parseErr, tally,
                 panicked, sent, received, merges,
                 merged,
                 printed, lockVars, selectVars, variantVars>>

(***************************************************************************)
(* fetchData.                                                              *)
(***************************************************************************)
\* the early returns of fetchData: client.Get or io.ReadAll gave an error
FetchErrorPath(out) == out.kind \in {"neterr", "timeout", "readerr"}

\* faulty variant: the return after the io.ReadAll error is missing
FetchRawPath_NoReturn(out) == out.kind \notin {"neterr", "timeout"}

\* the final send of fetchData is reached when no early return was taken
FetchRawPath(out) == ~FetchErrorPath(out)

\* client.Get(endpoint) and io.ReadAll(res.Body)
FetchGet(e) ==
  /\ Running
  /\ fpc[e] = "get"
  /\ \E out \in FetchOutcomes(e) : fmsg' = [fmsg EXCEPT ![e] = out]
  /\ fpc' = [fpc EXCEPT ![e] = "send"]
  /\ UNCHANGED <<endpoints, rawCh, parsedCh, errCh, wg, parseWg, errWg, mpc, parsed,
                 aggregated, enriched, rcpc, wpc, wraw, pcpc, epc, fetchErr, parseErr,
                 tally, panicked, sent, received, merges,
                 merged,
                 printed, lockVars, selectVars, variantVars>>

\* errCh <- PipelineError{...}; return   and   ch <- RawResponse{...}
FetchSend(e) ==
  /\ Running
  /\ fpc[e] = "send"
  /\ LET out == fmsg[e]
         perr == PipelineError("fetch", e, out.kind)
         raw == RawResponse(e, out.body)
     IN /\ FetchErrorPath(out) => CanSend(errCh)
        /\ FetchRawPath(out) => CanSend(rawCh)
        /\ errCh' = IF FetchErrorPath(out) THEN Send(errCh, perr) ELSE errCh
        /\ rawCh' = IF FetchRawPath(out) THEN Send(rawCh, raw) ELSE rawCh
        /\ panicked' = ((FetchErrorPath(out) /\ errCh.closed) \/ (FetchRawPath(out) /\ rawCh.closed))
        /\ sent' = NoteRaw(NoteErr(sent, perr, FetchErrorPath(out)), raw, FetchRawPath(out))
  /\ fpc' = [fpc EXCEPT ![e] = "sent"]
  /\ UNCHANGED <<endpoints, parsedCh, wg, parseWg, errWg, mpc, parsed, aggregated,
                 enriched, fmsg, rcpc, wpc, wraw, pcpc, epc, fetchErr, parseErr, tally,
                 received, merges,
                 merged,
                 printed, lockVars, selectVars, variantVars>>

\* defer wg.Done()
FetchDone(e) ==
  /\ Running
  /\ fpc[e] = "sent"
  /\ wg' = wg - 1
  /\ fpc' = [fpc EXCEPT ![e] = "done"]
  /\ UNCHANGED <<endpoints, rawCh, parsedCh, errCh, parseWg, errWg, mpc, parsed,
                 aggregated, enriched, fmsg, rcpc, wpc, wraw, pcpc, epc, fetchErr,
                 parseErr, tally, panicked, sent, received, merges,
                 merged,
                 printed, lockVars, selectVars, variantVars>>

\* faulty variant: close without waiting for the group
WaitReturns_NoWait(counter) == TRUE

\* wg.Wait() returns when the counter is zero
WaitReturns(counter) == counter = 0

\* go func() { wg.Wait(); close(rawCh) }()
CloseRaw ==
  /\ Running
  /\ rcpc = "wait"
  /\ WaitReturns(wg)
  /\ rawCh' = Close(rawCh)
  /\ rcpc' = "done"
  /\ UNCHANGED <<endpoints, parsedCh, errCh, wg, parseWg, errWg, mpc, parsed, aggregated,
                 enriched, fpc, fmsg, wpc, wraw, pcpc, epc, fetchErr, parseErr, tally,
                 panicked, sent, received, merges,
                 merged,
                 printed, lockVars, selectVars, variantVars>>

(***************************************************************************)
(* The parse workers.                                                      *)
(***************************************************************************)
\* for raw := range rawCh: the next receive, or the end of the loop and
\* the deferred parseWg.Done()
WorkerRecv(w) ==
  /\ Running
  /\ wpc[w] = "recv"
  /\ CanRecv(rawCh) \/ Drained(rawCh)
  /\ IF CanRecv(rawCh)
       THEN /\ wraw' = [wraw EXCEPT ![w] = Head(rawCh.buf)]
            /\ rawCh' = Recv(rawCh)
            /\ received' = [received EXCEPT ![Head(rawCh.buf).Endpoint] = Append(@, w)]
            /\ wpc' = [wpc EXCEPT ![w] = "parse"]
            /\ UNCHANGED parseWg
       ELSE /\ parseWg' = parseWg - 1
            /\ wpc' = [wpc EXCEPT ![w] = "done"]
            /\ UNCHANGED <<wraw, rawCh, received>>
  /\ UNCHANGED <<endpoints, parsedCh, errCh, wg, errWg, mpc, parsed, aggregated,
                 enriched, fpc, fmsg, rcpc, pcpc, epc, fetchErr, parseErr, tally,
                 panicked, sent, merges,
                 merged,
                 printed, lockVars, selectVars, variantVars>>

\* the early return of parseData: json.Unmarshal gave an error
ParseErrorPath(r) == r.err # "nil"

\* faulty variant: the return after the json.Unmarshal error is missing
ParseDataPath_NoReturn(r) == TRUE

\* the final send of parseData is reached when no early return was taken
ParseDataPath(r) == ~ParseErrorPath(r)

\* the switch on raw.Endpoint (no default case) and
\* parseData[T](raw, parsedCh, errCh, "parse") for the T of raw.Endpoint
WorkerParse(w) ==
  /\ Running
  /\ wpc[w] = "parse"
  /\ LET raw == wraw[w]
         T == ElemOf(raw.Endpoint)
         r == Unmarshal(raw.Data, T)
         perr == PipelineError("parse", raw.Endpoint, r.err)
         pd == ParsedData(r.data, raw.Endpoint)
         toErr == T # "none" /\ ParseErrorPath(r)
         toParsed == T # "none" /\ ParseDataPath(r)
     IN /\ toErr => CanSend(errCh)
        /\ toParsed => CanSend(parsedCh)
        /\ errCh' = IF toErr THEN Send(errCh, perr) ELSE errCh
        /\ parsedCh' = IF toParsed THEN Send(parsedCh, pd) ELSE parsedCh
        /\ panicked' = ((toErr /\ errCh.closed) \/ (toParsed /\ parsedCh.closed))
        /\ sent' = NoteParsed(NoteErr(sent, perr, toErr), pd, toParsed)
  /\ wraw' = [wraw EXCEPT ![w] = NoMsg]
  /\ wpc' = [wpc EXCEPT ![w] = "recv"]
  /\ UNCHANGED <<endpoints, rawCh, wg, parseWg, errWg, mpc, parsed, aggregated, enriched,
                 fpc, fmsg, rcpc, pcpc, epc, fetchErr, parseErr, tally, received, merges,
                 merged,
                 printed, lockVars, selectVars, variantVars>>

\* go func() { parseWg.Wait(); close(parsedCh); ... }()
CloseParsed ==
  /\ Running
  /\ pcpc = "wait"
  /\ WaitReturns(parseWg)
  /\ parsedCh' = Close(parsedCh)
  /\ pcpc' = "closeErr"
  /\ UNCHANGED <<endpoints, rawCh, errCh, wg, parseWg, errWg, mpc, parsed, aggregated,
                 enriched, fpc, fmsg, rcpc, wpc, wraw, epc, fetchErr, parseErr, tally,
                 panicked, sent, received, merges,
                 merged,
                 printed, lockVars, selectVars, variantVars>>

\* faulty variant: the goroutine ends without close(errCh)
CloseErr_Skip ==
  /\ Running
  /\ pcpc = "closeErr"
  /\ pcpc' = "done"
  /\ UNCHANGED <<endpoints, rawCh, parsedCh, errCh, wg, parseWg, errWg, mpc, parsed,
                 aggregated, enriched, fpc, fmsg, rcpc, wpc, wraw, epc, fetchErr, parseErr,
                 tally, panicked, sent, received, merges, merged,
                 printed, lockVars, selectVars, variantVars>>

\* ... close(errCh)
CloseErr ==
  /\ Running
  /\ pcpc = "closeErr"
  /\ errCh' = Close(errCh)
  /\ pcpc' = "done"
  /\ UNCHANGED <<endpoints, rawCh, parsedCh, wg, parseWg, errWg, mpc, parsed, aggregated,
                 enriched, fpc, fmsg, rcpc, wpc, wraw, epc, fetchErr, parseErr, tally,
                 panicked, sent, received, merges,
                 merged,
                 printed, lockVars, selectVars, variantVars>>

(***************************************************************************)
(* The error-reporting goroutine.                                          *)
(***************************************************************************)
\* the switch on err.Stage
CountError(counters, stage) ==
  CASE stage = "fetch" -> [counters EXCEPT !.fetch = @ + 1]
    [] stage = "parse" -> [counters EXCEPT !.parse = @ + 1]
    [] OTHER -> counters

\* faulty variant: the goroutine prints its totals without errWg.Done()
ErrorReporter_NoDone ==
  /\ Running
  /\ epc = "recv"
  /\ CanRecv(errCh) \/ Drained(errCh)
  /\ IF CanRecv(errCh)
       THEN LET c == CountError([fetch |-> fetchErr, parse |-> parseErr], Head(errCh.buf).Stage)
            IN /\ fetchErr' = c.fetch
               /\ parseErr' = c.parse
               /\ errCh' = Recv(errCh)
               /\ UNCHANGED <<tally, epc>>
       ELSE /\ tally' = [fetch |-> fetchErr, parse |-> parseErr]
            /\ epc' = "done"
            /\ UNCHANGED <<fetchErr, parseErr, errCh>>
  /\ UNCHANGED <<endpoints, rawCh, parsedCh, wg, parseWg, errWg, mpc, parsed, aggregated,
                 enriched, fpc, fmsg, rcpc, wpc, wraw, pcpc, panicked, sent, received,
                 merges, merged,
                 printed, lockVars, selectVars, variantVars>>

\* for err := range errCh { log; count }, then the two Printf and errWg.Done()
ErrorReporter ==
  /\ Running
  /\ epc = "recv"
  /\ CanRecv(errCh) \/ Drained(errCh)
  /\ IF CanRecv(errCh)
       THEN LET c == CountError([fetch |-> fetchErr, parse |-> parseErr], Head(errCh.buf).Stage)
            IN /\ fetchErr' = c.fetch
               /\ parseErr' = c.parse
               /\ errCh' = Recv(errCh)
               /\ UNCHANGED <<tally, errWg, epc>>
       ELSE /\ tally' = [fetch |-> fetchErr, parse |-> parseErr]
            /\ errWg' = errWg - 1
            /\ epc' = "done"
            /\ UNCHANGED <<fetchErr, parseErr, errCh>>
  /\ UNCHANGED <<endpoints, rawCh, parsedCh, wg, parseWg, mpc, parsed, aggregated,
                 enriched, fpc, fmsg, rcpc, wpc, wraw, pcpc, panicked, sent, received,
                 merges,
                 merged,
                 printed, lockVars, selectVars, variantVars>>

(***************************************************************************)
(* main, part 2: the aggregation loop, enrichment and errWg.Wait().        *)
(***************************************************************************)
\* faulty variant: main stops ranging as soon as parsedCh is empty
MainRecv_NoClose ==
  /\ Running
  /\ mpc = "recv"
  /\ IF CanRecv(parsedCh)
       THEN /\ parsed' = Head(parsedCh.buf)
            /\ parsedCh' = Recv(parsedCh)
            /\ mpc' = "merge"
       ELSE /\ mpc' = "enrich"
            /\ UNCHANGED <<parsed, parsedCh>>
  /\ UNCHANGED <<endpoints, rawCh, errCh, wg, parseWg, errWg, aggregated, enriched, fpc,
                 fmsg, rcpc, wpc, wraw, pcpc, epc, fetchErr, parseErr, tally, panicked,
                 sent, received, merges, merged,
                 printed, lockVars, selectVars, variantVars>>

\* for parsed := range parsedCh
MainRecv ==
  /\ Running
  /\ mpc = "recv"
  /\ CanRecv(parsedCh) \/ Drained(parsedCh)
  /\ IF CanRecv(parsedCh)
       THEN /\ parsed' = Head(parsedCh.buf)
            /\ parsedCh' = Recv(parsedCh)
            /\ mpc' = "merge"
       ELSE /\ mpc' = "enrich"
            /\ UNCHANGED <<parsed, parsedCh>>
  /\ UNCHANGED <<endpoints, rawCh, errCh, wg, parseWg, errWg, aggregated, enriched, fpc,
                 fmsg, rcpc, wpc, wraw, pcpc, epc, fetchErr, parseErr, tally, panicked,
                 sent, received, merges,
                 merged,
                 printed, lockVars, selectVars, variantVars>>

\* switch v := parsed.Data.(type): the Add* call of the matching case
Merge(ad, data) ==
  CASE data.elem = "User" -> AddUsers(ad, data.items)
    [] data.elem = "Post" -> AddPosts(ad, data.items)
    [] data.elem = "Comment" -> AddComments(ad, data.items)
    [] data.elem = "Album" -> AddAlbums(ad, data.items)
    [] data.elem = "Photo" -> AddPhotos(ad, data.items)
    [] data.elem = "Todo" -> AddTodos(ad, data.items)
    [] OTHER -> ad

\* history: the records of a batch join those of their kind
Merged(m, data) ==
  IF data.elem \in Kinds THEN [m EXCEPT ![data.elem] = @ \cup Range(data.items)] ELSE m

\* faulty variant: the switch has no default case
ReportUnknown_Silent(out, p) == out

\* default: fmt.Printf("Unknown type for endpoint %s\n", parsed.Endpoint)
ReportUnknown(out, p) ==
  IF p.Data.elem \in Kinds THEN out ELSE Append(out, p.Endpoint)

MainMerge ==
  /\ Running
  /\ mpc = "merge"
  /\ aggregated' = Merge(aggregated, parsed.Data)
  /\ printed' = ReportUnknown(printed, parsed)
  /\ merges' = [merges EXCEPT ![parsed.Endpoint] = @ + 1]
  /\ merged' = Merged(merged, parsed.Data)
  /\ parsed' = NoMsg
  /\ mpc' = "recv"
  /\ UNCHANGED <<endpoints, rawCh, parsedCh, errCh, wg, parseWg, errWg, enriched, fpc,
                 fmsg, rcpc, wpc, wraw, pcpc, epc, fetchErr, parseErr, tally, panicked,
                 sent, received, lockVars, selectVars, variantVars>>

\* enrichedUser := aggregated.GetEnrichedUsers() and the printing loop
MainEnrich ==
  /\ Running
  /\ mpc = "enrich"
  /\ \E order \in Perms(DOMAIN aggregated.Users) :
       enriched' = Append(enriched, GetEnrichedUsers(aggregated, order))
  /\ mpc' = "wait"
  /\ UNCHANGED <<endpoints, rawCh, parsedCh, errCh, wg, parseWg, errWg, parsed,
                 aggregated, fpc, fmsg, rcpc, wpc, wraw, pcpc, epc, fetchErr, parseErr,
                 tally, panicked, sent, received, merges,
                 merged,
                 printed, lockVars, selectVars, variantVars>>

\* faulty variant: main returns without errWg.Wait()
MainWait_NoWait ==
  /\ Running
  /\ mpc = "wait"
  /\ mpc' = "done"
  /\ UNCHANGED <<endpoints, rawCh, parsedCh, errCh, wg, parseWg, errWg, parsed,
                 aggregated, enriched, fpc, fmsg, rcpc, wpc, wraw, pcpc, epc, fetchErr,
                 parseErr, tally, panicked, sent, received, merges, merged,
                 printed, lockVars, selectVars, variantVars>>

\* errWg.Wait() and the return of main
MainWait ==
  /\ Running
  /\ mpc = "wait"
  /\ WaitReturns(errWg)
  /\ mpc' = "done"
  /\ UNCHANGED <<endpoints, rawCh, parsedCh, errCh, wg, parseWg, errWg, parsed,
                 aggregated, enriched, fpc, fmsg, rcpc, wpc, wraw, pcpc, epc, fetchErr,
                 parseErr, tally, panicked, sent, received, merges,
                 merged,
                 printed, lockVars, selectVars, variantVars>>

Next ==
  \/ MainStartErrors
  \/ MainFetchStage
  \/ MainParseStage
  \/ \E e \in Eps : FetchGet(e)
  \/ \E e \in Eps : FetchSend(e)
  \/ \E e \in Eps : FetchDone(e)
  \/ CloseRaw
  \/ \E w \in Workers : WorkerRecv(w)
  \/ \E w \in Workers : WorkerParse(w)
  \/ CloseParsed
  \/ CloseErr
  \/ ErrorReporter
  \/ MainRecv
  \/ MainMerge
  \/ MainEnrich
  \/ MainWait

Spec == Init /\ [][Next]_vars

\* the Go scheduler keeps running goroutines that are able to run: some
\* enabled step of the program is eventually taken
FairSpec == Spec /\ WF_vars(Next)

(***************************************************************************)
(* The store on its own: Add* calls with batches drawn from bounded sets   *)
(* (ids unique within each kind) and GetEnrichedUsers calls.               *)
(***************************************************************************)
Records(k) ==
  CASE k = "User" -> {User(i) : i \in 1..MaxUser}
    [] k = "Post" -> {Post(i, u) : i \in 1..MaxPost, u \in 1..MaxUser}
    [] k = "Comment" -> {Comment(i, p) : i \in 1..MaxComment, p \in 1..MaxPost}
    [] k = "Album" -> {Album(i, u) : i \in 1..MaxAlbum, u \in 1..MaxUser}
    [] k = "Photo" -> {Photo(i, a) : i \in 1..MaxPhoto, a \in 1..MaxAlbum}
    [] k = "Todo" -> {Todo(i, u) : i \in 1..MaxTodo, u \in 1..MaxUser}

Batches(k) ==
  {b \in UNION {[1..n -> Records(k)] : n \in 0..MaxBatch} :
     \A i, j \in DOMAIN b : b[i].ID = b[j].ID => i = j}

InitStore ==
  /\ endpoints = <<>>
  /\ rawCh = MakeChan(0)
  /\ parsedCh = MakeChan(0)
  /\ errCh = MakeChan(0)
  /\ wg = 0 /\ parseWg = 0 /\ errWg = 0
  /\ mpc = "store"
  /\ parsed = NoMsg
  /\ aggregated = NewAggregatedData
  /\ enriched = <<>>
  /\ fpc = [e \in {} |-> "idle"]
  /\ fmsg = [e \in {} |-> Pending]
  /\ rcpc = "idle"
  /\ wpc = [w \in Workers |-> "idle"]
  /\ wraw = [w \in Workers |-> NoMsg]
  /\ pcpc = "idle"
  /\ epc = "idle"
  /\ fetchErr = 0 /\ parseErr = 0
  /\ tally = NoTally
  /\ panicked = FALSE
  /\ sent = [e \in {} |-> NoSent]
  /\ received = [e \in {} |-> <<>>]
  /\ merges = [e \in {} |-> 0]
  /\ merged = NoneMerged
  /\ printed = <<>>
  /\ mu = RWMutex
  /\ gs = <<>>
  /\ processed = 0 /\ rawNil = FALSE /\ errNil = FALSE
  /\ mraw = NoMsg
  /\ enrichedCh = MakeChan(0)
  /\ upc = <<>>
  /\ got = NoneGot

\* one of AddUsers, AddPosts, AddComments, AddAlbums, AddPhotos, AddTodos
StoreAdd(k) ==
  /\ mpc = "store"
  /\ \E b \in Batches(k) :
       /\ \A i \in DOMAIN b : b[i].ID \notin {r.ID : r \in merged[k]}
       /\ aggregated' = Merge(aggregated, [elem |-> k, items |-> b])
       /\ merged' = Merged(merged, [elem |-> k, items |-> b])
  /\ enriched' = <<>>
  /\ UNCHANGED <<endpoints, rawCh, parsedCh, errCh, wg, parseWg, errWg, mpc, parsed, fpc,
                 fmsg, rcpc, wpc, wraw, pcpc, epc, fetchErr, parseErr, tally, panicked,
                 sent, received, merges,
                 printed, lockVars, selectVars, variantVars>>

\* aggregated.GetEnrichedUsers()
StoreEnrich ==
  /\ mpc = "store"
  /\ Len(enriched) < MaxCalls
  /\ \E order \in Perms(DOMAIN aggregated.Users) :
       enriched' = Append(enriched, GetEnrichedUsers(aggregated, order))
  /\ UNCHANGED <<endpoints, rawCh, parsedCh, errCh, wg, parseWg, errWg, mpc, parsed,
                 aggregated, fpc, fmsg, rcpc, wpc, wraw, pcpc, epc, fetchErr, parseErr,
                 tally, panicked, sent, received, merges, merged,
                 printed, lockVars, selectVars, variantVars>>

NextStore ==
  \/ \E k \in Kinds : StoreAdd(k)
  \/ StoreEnrich

SpecStore == InitStore /\ [][NextStore]_vars

(***************************************************************************)
(* The aggregation loop on its own: both stages have finished and parsedCh *)
(* is closed, holding ParsedData whose Data is any of the six slices or a  *)
(* value of another dynamic type (Data is declared `any`).                 *)
(***************************************************************************)
UnknownData == {[elem |-> "nil", items |-> <<>>], [elem |-> "[]string", items |-> <<>>]}

LoopData ==
  UNION {{[elem |-> ElemOf(e), items |-> it] : it \in SampleItems(e)} : e \in Range(AllEndpoints)}
  \cup UnknownData

LoopInputs(eps) == {ParsedData(d, e) : e \in eps, d \in LoopData}

InitLoop ==
  /\ endpoints \in EndpointLists
  /\ rawCh = Close(MakeChan(Len(endpoints)))
  /\ \E b \in UNION {[1..n -> LoopInputs(Eps)] : n \in 0..Len(endpoints)} :
       parsedCh = [buf |-> b, cap |-> Len(endpoints), closed |-> TRUE]
  /\ errCh = Close(MakeChan(Len(endpoints) * 2))
  /\ wg = 0 /\ parseWg = 0 /\ errWg = 0
  /\ mpc = "recv"
  /\ parsed = NoMsg
  /\ aggregated = NewAggregatedData
  /\ enriched = <<>>
  /\ fpc = [e \in Eps |-> "done"]
  /\ fmsg = [e \in Eps |-> Pending]
  /\ rcpc = "done"
  /\ wpc = [w \in Workers |-> "done"]
  /\ wraw = [w \in Workers |-> NoMsg]
  /\ pcpc = "done"
  /\ epc = "done"
  /\ fetchErr = 0 /\ parseErr = 0
  /\ tally = [fetch |-> 0, parse |-> 0]
  /\ panicked = FALSE
  /\ sent = [e \in Eps |-> NoSent]
  /\ received = [e \in Eps |-> <<>>]
  /\ merges = [e \in Eps |-> 0]
  /\ merged = NoneMerged
  /\ printed = <<>>
  /\ mu = RWMutex
  /\ gs = <<>>
  /\ processed = 0 /\ rawNil = FALSE /\ errNil = FALSE
  /\ mraw = NoMsg
  /\ enrichedCh = MakeChan(0)
  /\ upc = <<>>
  /\ got = NoneGot

NextLoop ==
  \/ MainRecv
  \/ MainMerge
  \/ MainEnrich
  \/ MainWait

SpecLoop == InitLoop /\ [][NextLoop]_vars

(***************************************************************************)
(* One AggregatedData shared by NumGoroutines goroutines, each making one  *)
(* call: an Add* with a batch of its own records, or GetEnrichedUsers.     *)
(* An Add* is Lock, then for each record of the batch one map assignment   *)
(* per index it feeds, then the deferred Unlock; an assignment             *)
(* m[k] = append(m[k], r) reads the bucket and then writes it.             *)
(***************************************************************************)
Goroutines == 1..NumGoroutines

\* the maps an Add* assigns to for one record of kind k, in statement order
Fields(k) ==
  CASE k = "User" -> <<"Users">>
    [] k = "Post" -> <<"Posts", "PostsByUser">>
    [] k = "Album" -> <<"Albums", "AlbumsByUser">>
    [] k = "Todo" -> <<"Todos">>
    [] k = "Comment" -> <<"Comments">>
    [] k = "Photo" -> <<"Photos">>

\* the key the Add* of kind k files a record under
KeyOf(k, r) ==
  CASE k = "User" -> r.ID
    [] k \in {"Post", "Album", "Todo"} -> r.UserID
    [] k = "Comment" -> r.PostID
    [] k = "Photo" -> r.AlbumID

Rec(k, id, fk) ==
  CASE k = "User" -> User(id)
    [] k = "Post" -> Post(id, fk)
    [] k = "Album" -> Album(id, fk)
    [] k = "Todo" -> Todo(id, fk)
    [] k = "Comment" -> Comment(id, fk)
    [] k = "Photo" -> Photo(id, fk)

\* the batch goroutine g passes to the Add* of kind k: ids of its own, and
\* foreign keys shared with the other goroutines' batches
LockBatch(g, k) == [i \in 1..LockBatchLen |-> Rec(k, (g - 1) * LockBatchLen + i, i)]

Calls == Kinds \cup {"GetEnrichedUsers"}

\* a goroutine about to make its call
Job(g, op) ==
  [op |-> op,
   batch |-> IF op \in Kinds THEN LockBatch(g, op) ELSE <<>>,
   pc |-> IF op \in Kinds THEN "lock" ELSE "rlock",
   i |-> 1, f |-> 1, tmp |-> <<>>,
   seen |-> NewAggregatedData, out |-> <<>>]

InitLock ==
  /\ endpoints = <<>>
  /\ rawCh = MakeChan(0)
  /\ parsedCh = MakeChan(0)
  /\ errCh = MakeChan(0)
  /\ wg = 0 /\ parseWg = 0 /\ errWg = 0
  /\ mpc = "concurrent"
  /\ parsed = NoMsg
  /\ aggregated = NewAggregatedData
  /\ enriched = <<>>
  /\ fpc = [e \in {} |-> "idle"]
  /\ fmsg = [e \in {} |-> Pending]
  /\ rcpc = "idle"
  /\ wpc = [w \in Workers |-> "idle"]
  /\ wraw = [w \in Workers |-> NoMsg]
  /\ pcpc = "idle"
  /\ epc = "idle"
  /\ fetchErr = 0 /\ parseErr = 0
  /\ tally = NoTally
  /\ panicked = FALSE
  /\ sent = [e \in {} |-> NoSent]
  /\ received = [e \in {} |-> <<>>]
  /\ merges = [e \in {} |-> 0]
  /\ merged = NoneMerged
  /\ printed = <<>>
  /\ mu = RWMutex
  /\ \E ops \in [Goroutines -> Calls] : gs = [g \in Goroutines |-> Job(g, ops[g])]
  /\ processed = 0 /\ rawNil = FALSE /\ errNil = FALSE
  /\ mraw = NoMsg
  /\ enrichedCh = MakeChan(0)
  /\ upc = <<>>
  /\ got = NoneGot

\* everything but the store, its mutex and the goroutines calling into it
pipelineVars ==
  <<endpoints, rawCh, parsedCh, errCh, wg, parseWg, errWg, mpc, parsed, enriched, fpc,
    fmsg, rcpc, wpc, wraw, pcpc, epc, fetchErr, parseErr, tally, panicked, sent,
    received, merges, merged, printed, selectVars, variantVars>>

\* faulty variant: Lock returns although the mutex is held
CanLock_Always(m) == TRUE

\* mu.Lock() returns when no writer and no reader holds the mutex
CanLock(m) == m.writers = 0 /\ m.readers = 0

\* faulty variant: RLock returns although a writer holds the mutex
CanRLock_Always(m) == TRUE

\* mu.RLock() returns when no writer holds the mutex
CanRLock(m) == m.writers = 0

\* where an Add* of kind k stands before a map assignment: ad.Users[u.ID] = u
\* writes only, the others read the bucket first
AssignPc(k) == IF k = "User" THEN "store" ELSE "load"

\* ad.mu.Lock()
Lock(g) ==
  /\ Running
  /\ gs[g].pc = "lock"
  /\ CanLock(mu)
  /\ mu' = [mu EXCEPT !.writers = @ + 1]
  /\ gs' = [gs EXCEPT ![g].pc = IF gs[g].batch = <<>> THEN "unlock" ELSE AssignPc(gs[g].op)]
  /\ UNCHANGED <<aggregated, pipelineVars>>

\* append(m[k], r): the bucket is read and the new slice built
Load(g) ==
  /\ Running
  /\ gs[g].pc = "load"
  /\ LET k == gs[g].op
         r == gs[g].batch[gs[g].i]
         field == Fields(k)[gs[g].f]
     IN gs' = [gs EXCEPT ![g].tmp = Append(Bucket(aggregated[field], KeyOf(k, r)), r),
                         ![g].pc = "store"]
  /\ UNCHANGED <<aggregated, mu, pipelineVars>>

\* m[k] = ...: the map entry is written; then the next assignment, the next
\* record, or the end of the loop
Store(g) ==
  /\ Running
  /\ gs[g].pc = "store"
  /\ LET k == gs[g].op
         r == gs[g].batch[gs[g].i]
         field == Fields(k)[gs[g].f]
         value == IF k = "User" THEN r ELSE gs[g].tmp
         lastField == gs[g].f = Len(Fields(k))
         lastRecord == gs[g].i = Len(gs[g].batch)
     IN /\ aggregated' = [aggregated EXCEPT ![field] = MapSet(@, KeyOf(k, r), value)]
        /\ gs' = [gs EXCEPT ![g].tmp = <<>>,
                            ![g].f = IF lastField THEN 1 ELSE @ + 1,
                            ![g].i = IF lastField /\ ~lastRecord THEN @ + 1 ELSE @,
                            ![g].pc = IF lastField /\ lastRecord THEN "unlock" ELSE AssignPc(k)]
  /\ UNCHANGED <<mu, pipelineVars>>

\* defer ad.mu.Unlock()
Unlock(g) ==
  /\ Running
  /\ gs[g].pc = "unlock"
  /\ mu' = [mu EXCEPT !.writers = @ - 1]
  /\ gs' = [gs EXCEPT ![g].pc = "done"]
  /\ UNCHANGED <<aggregated, pipelineVars>>

\* ad.mu.RLock()
RLock(g) ==
  /\ Running
  /\ gs[g].pc = "rlock"
  /\ CanRLock(mu)
  /\ mu' = [mu EXCEPT !.readers = @ + 1]
  /\ gs' = [gs EXCEPT ![g].pc = "read"]
  /\ UNCHANGED <<aggregated, pipelineVars>>

\* the loop of GetEnrichedUsers over the store as it stands
Read(g) ==
  /\ Running
  /\ gs[g].pc = "read"
  /\ \E order \in Perms(DOMAIN aggregated.Users) :
       gs' = [gs EXCEPT ![g].seen = aggregated,
                        ![g].out = GetEnrichedUsers(aggregated, order),
                        ![g].pc = "runlock"]
  /\ UNCHANGED <<aggregated, mu, pipelineVars>>

\* defer ad.mu.RUnlock()
RUnlock(g) ==
  /\ Running
  /\ gs[g].pc = "runlock"
  /\ mu' = [mu EXCEPT !.readers = @ - 1]
  /\ gs' = [gs EXCEPT ![g].pc = "done"]
  /\ UNCHANGED <<aggregated, pipelineVars>>

NextLock ==
  \/ \E g \in Goroutines : Lock(g)
  \/ \E g \in Goroutines : Load(g)
  \/ \E g \in Goroutines : Store(g)
  \/ \E g \in Goroutines : Unlock(g)
  \/ \E g \in Goroutines : RLock(g)
  \/ \E g \in Goroutines : Read(g)
  \/ \E g \in Goroutines : RUnlock(g)

SpecLock == InitLock /\ [][NextLock]_vars

(***************************************************************************)
(* The select-loop variant of main: one goroutine closes rawCh after       *)
(* wg.Wait(), the fetchData goroutines send on rawCh or errCh, and main    *)
(* receives from both in a select loop, parsing inline, until it has       *)
(* counted len(endpoints) messages; then it closes errCh and parsedCh.     *)
(***************************************************************************)
StructuredError(stage, endpoint, err) == [Stage |-> stage, Endpoint |-> endpoint, Error |-> err]

\* the early returns of this fetchData: client.Get failed, the status is
\* 400 or more, or io.ReadAll failed
SelFetchErrorPath(out) ==
  \/ out.kind \in {"neterr", "timeout", "readerr"}
  \/ out.kind = "resp" /\ out.status >= 400

\* the final send of this fetchData is reached when no early return was taken
SelFetchRawPath(out) == ~SelFetchErrorPath(out)

InitSelect ==
  /\ endpoints \in EndpointLists
  /\ rawCh = MakeChan(Len(endpoints))
  /\ parsedCh = MakeChan(Len(endpoints))
  /\ errCh = MakeChan(Len(endpoints) * 2)
  /\ wg = 0 /\ parseWg = 0 /\ errWg = 0
  /\ mpc = "goCloser"
  /\ parsed = NoMsg
  /\ aggregated = NewAggregatedData
  /\ enriched = <<>>
  /\ fpc = [e \in Eps |-> "idle"]
  /\ fmsg = [e \in Eps |-> Pending]
  /\ rcpc = "idle"
  /\ wpc = [w \in Workers |-> "idle"]
  /\ wraw = [w \in Workers |-> NoMsg]
  /\ pcpc = "idle"
  /\ epc = "idle"
  /\ fetchErr = 0 /\ parseErr = 0
  /\ tally = NoTally
  /\ panicked = FALSE
  /\ sent = [e \in Eps |-> NoSent]
  /\ received = [e \in Eps |-> <<>>]
  /\ merges = [e \in Eps |-> 0]
  /\ merged = NoneMerged
  /\ printed = <<>>
  /\ mu = RWMutex
  /\ gs = <<>>
  /\ processed = 0 /\ rawNil = FALSE /\ errNil = FALSE
  /\ mraw = NoMsg
  /\ enrichedCh = MakeChan(0)
  /\ upc = <<>>
  /\ got = NoneGot

\* what no step of this variant touches
selectIdle ==
  <<endpoints, parseWg, errWg, parsed, aggregated, enriched, wpc, wraw, pcpc, epc,
    fetchErr, parseErr, tally, received, merges, merged, printed, lockVars, variantVars>>

\* go func() { wg.Wait(); close(rawCh) }()
SelStartCloser ==
  /\ Running
  /\ mpc = "goCloser"
  /\ rcpc' = "wait"
  /\ mpc' = "fetchStage"
  /\ UNCHANGED <<rawCh, parsedCh, errCh, wg, fpc, fmsg, panicked, sent, selectVars,
                 selectIdle>>

\* wg.Add(len(endpoints)); go fetchData(e, "fetch", rawCh, errCh, &wg) for each e
SelFetchStage ==
  /\ Running
  /\ mpc = "fetchStage"
  /\ wg' = wg + Len(endpoints)
  /\ fpc' = [e \in Eps |-> "get"]
  /\ mpc' = "select"
  /\ UNCHANGED <<rawCh, parsedCh, errCh, fmsg, rcpc, panicked, sent, selectVars,
                 selectIdle>>

\* the closer goroutine: wg.Wait() returns
SelCloserWait ==
  /\ Running
  /\ rcpc = "wait"
  /\ WaitReturns(wg)
  /\ rcpc' = "close"
  /\ UNCHANGED <<rawCh, parsedCh, errCh, wg, mpc, fpc, fmsg, panicked, sent, selectVars,
                 selectIdle>>

\* the closer goroutine: close(rawCh)
SelCloserClose ==
  /\ Running
  /\ rcpc = "close"
  /\ rawCh' = Close(rawCh)
  /\ panicked' = (rawCh.closed \/ rawNil)
  /\ rcpc' = "done"
  /\ UNCHANGED <<parsedCh, errCh, wg, mpc, fpc, fmsg, sent, selectVars, selectIdle>>

\* client.Get(endpoint), the status check and io.ReadAll(resp.Body)
SelFetchGet(e) ==
  /\ Running
  /\ fpc[e] = "get"
  /\ \E out \in FetchOutcomes(e) : fmsg' = [fmsg EXCEPT ![e] = out]
  /\ fpc' = [fpc EXCEPT ![e] = "send"]
  /\ UNCHANGED <<rawCh, parsedCh, errCh, wg, mpc, rcpc, panicked, sent, selectVars,
                 selectIdle>>

\* errCh <- StructuredError{...}; return   and   rawCh <- RawResponse{...}
SelFetchSend(e) ==
  /\ Running
  /\ fpc[e] = "send"
  /\ LET out == fmsg[e]
         serr == StructuredError("fetch", e, out.kind)
         rr == RawResponse(e, out.body)
     IN /\ SelFetchErrorPath(out) => CanSend(errCh)
        /\ SelFetchRawPath(out) => CanSend(rawCh)
        /\ errCh' = IF SelFetchErrorPath(out) THEN Send(errCh, serr) ELSE errCh
        /\ rawCh' = IF SelFetchRawPath(out) THEN Send(rawCh, rr) ELSE rawCh
        /\ panicked' = ((SelFetchErrorPath(out) /\ errCh.closed)
                        \/ (SelFetchRawPath(out) /\ rawCh.closed))
        /\ sent' = NoteRaw(NoteErr(sent, serr, SelFetchErrorPath(out)), rr,
                           SelFetchRawPath(out))
  /\ fpc' = [fpc EXCEPT ![e] = "sent"]
  /\ UNCHANGED <<parsedCh, wg, mpc, fmsg, rcpc, selectVars, selectIdle>>

\* defer wg.Done()
SelFetchDone(e) ==
  /\ Running
  /\ fpc[e] = "sent"
  /\ wg' = wg - 1
  /\ fpc' = [fpc EXCEPT ![e] = "done"]
  /\ UNCHANGED <<rawCh, parsedCh, errCh, mpc, fmsg, rcpc, panicked, sent, selectVars,
                 selectIdle>>

\* for processed < totalExpected: the loop condition
SelLooping == processed < Len(endpoints)

\* case raw, ok := <-rawCh (a receive from a nil channel is never ready)
SelRecvRaw ==
  /\ Running
  /\ mpc = "select"
  /\ SelLooping
  /\ ~rawNil
  /\ CanRecv(rawCh) \/ Drained(rawCh)
  /\ IF CanRecv(rawCh)
       THEN /\ mraw' = Head(rawCh.buf)
            /\ rawCh' = Recv(rawCh)
            /\ mpc' = "parse"
            /\ UNCHANGED rawNil
       ELSE /\ rawNil' = TRUE
            /\ UNCHANGED <<mraw, rawCh, mpc>>
  /\ UNCHANGED <<parsedCh, errCh, wg, fpc, fmsg, rcpc, panicked, sent, processed, errNil,
                 selectIdle>>

\* the switch on raw.Endpoint (no default case), parseData[T](raw, errCh, "parse"),
\* the send on parsedCh when parseOk, and processed++
SelParse ==
  /\ Running
  /\ mpc = "parse"
  /\ LET T == ElemOf(mraw.Endpoint)
         r == Unmarshal(mraw.Data, T)
         serr == StructuredError("parse", mraw.Endpoint, r.err)
         pd == ParsedData(r.data, mraw.Endpoint)
         toErr == T # "none" /\ ParseErrorPath(r)
         parseOk == T # "none" /\ ~ParseErrorPath(r)
     IN /\ toErr => CanSend(errCh)
        /\ parseOk => CanSend(parsedCh)
        /\ errCh' = IF toErr THEN Send(errCh, serr) ELSE errCh
        /\ parsedCh' = IF parseOk THEN Send(parsedCh, pd) ELSE parsedCh
        /\ panicked' = ((toErr /\ errCh.closed) \/ (parseOk /\ parsedCh.closed))
        /\ sent' = NoteParsed(NoteErr(sent, serr, toErr), pd, parseOk)
  /\ processed' = processed + 1
  /\ mraw' = NoMsg
  /\ mpc' = "select"
  /\ UNCHANGED <<rawCh, wg, fpc, fmsg, rcpc, rawNil, errNil, selectIdle>>

\* case err, ok := <-errCh: the error is printed and processed++
SelRecvErr ==
  /\ Running
  /\ mpc = "select"
  /\ SelLooping
  /\ ~errNil
  /\ CanRecv(errCh) \/ Drained(errCh)
  /\ IF CanRecv(errCh)
       THEN /\ errCh' = Recv(errCh)
            /\ processed' = processed + 1
            /\ UNCHANGED errNil
       ELSE /\ errNil' = TRUE
            /\ UNCHANGED <<errCh, processed>>
  /\ UNCHANGED <<rawCh, parsedCh, wg, mpc, fpc, fmsg, rcpc, panicked, sent, rawNil, mraw,
                 selectIdle>>

\* the loop ends; close(errCh)
SelCloseErr ==
  /\ Running
  /\ mpc = "select"
  /\ ~SelLooping
  /\ errCh' = Close(errCh)
  /\ panicked' = (errCh.closed \/ errNil)
  /\ mpc' = "closeParsed"
  /\ UNCHANGED <<rawCh, parsedCh, wg, fpc, fmsg, rcpc, sent, selectVars, selectIdle>>

\* close(parsedCh)
SelCloseParsed ==
  /\ Running
  /\ mpc = "closeParsed"
  /\ parsedCh' = Close(parsedCh)
  /\ panicked' = parsedCh.closed
  /\ mpc' = "range"
  /\ UNCHANGED <<rawCh, errCh, wg, fpc, fmsg, rcpc, sent, selectVars, selectIdle>>

\* for parsed := range parsedCh { print }; main returns after the loop
SelRange ==
  /\ Running
  /\ mpc = "range"
  /\ CanRecv(parsedCh) \/ Drained(parsedCh)
  /\ IF CanRecv(parsedCh)
       THEN /\ parsedCh' = Recv(parsedCh)
            /\ UNCHANGED mpc
       ELSE /\ mpc' = "done"
            /\ UNCHANGED parsedCh
  /\ UNCHANGED <<rawCh, errCh, wg, fpc, fmsg, rcpc, panicked, sent, selectVars,
                 selectIdle>>

NextSelect ==
  \/ SelStartCloser
  \/ SelFetchStage
  \/ SelCloserWait
  \/ SelCloserClose
  \/ \E e \in Eps : SelFetchGet(e)
  \/ \E e \in Eps : SelFetchSend(e)
  \/ \E e \in Eps : SelFetchDone(e)
  \/ SelRecvRaw
  \/ SelParse
  \/ SelRecvErr
  \/ SelCloseErr
  \/ SelCloseParsed
  \/ SelRange

SpecSelect == InitSelect /\ [][NextSelect]_vars

(***************************************************************************)
(* The fetch-only variant: main starts one FetchData goroutine per         *)
(* endpoint (wg.Add(1) before each), then the goroutine that closes ch and *)
(* errCh after wg.Wait(), and ranges over ch, over errCh and over ch       *)
(* again.  ch is held in rawCh; its messages are the bodies alone.         *)
(***************************************************************************)
\* fmt.Errorf("failed to <what> ...: %w", ..., err): the error value by what
\* failed, for which endpoint, and its cause
Errorf(what, endpoint, err) == [Stage |-> what, Endpoint |-> endpoint, Error |-> err]

\* the early returns of FetchData: client.Get or io.ReadAll gave an error
FoErrorPath(out) == out.kind \in {"neterr", "timeout", "readerr"}

\* ch <- data is reached when no early return was taken
FoDataPath(out) == ~FoErrorPath(out)

\* the error FetchData sends for an outcome
FoError(e, out) ==
  IF out.kind = "readerr" THEN Errorf("read", e, out.kind) ELSE Errorf("fetch", e, out.kind)

InitFetch ==
  /\ endpoints \in EndpointLists
  /\ rawCh = MakeChan(Len(endpoints))
  /\ parsedCh = MakeChan(0)
  /\ errCh = MakeChan(Len(endpoints))
  /\ wg = 0 /\ parseWg = 0 /\ errWg = 0
  /\ mpc = "spawn"
  /\ parsed = NoMsg
  /\ aggregated = NewAggregatedData
  /\ enriched = <<>>
  /\ fpc = [e \in Eps |-> "idle"]
  /\ fmsg = [e \in Eps |-> Pending]
  /\ rcpc = "idle"
  /\ wpc = [w \in Workers |-> "idle"]
  /\ wraw = [w \in Workers |-> NoMsg]
  /\ pcpc = "idle"
  /\ epc = "idle"
  /\ fetchErr = 0 /\ parseErr = 0
  /\ tally = NoTally
  /\ panicked = FALSE
  /\ sent = [e \in Eps |-> NoSent]
  /\ received = [e \in Eps |-> <<>>]
  /\ merges = [e \in Eps |-> 0]
  /\ merged = NoneMerged
  /\ printed = <<>>
  /\ mu = RWMutex
  /\ gs = <<>>
  /\ processed = 0 /\ rawNil = FALSE /\ errNil = FALSE
  /\ mraw = NoMsg
  /\ enrichedCh = MakeChan(0)
  /\ upc = <<>>
  /\ got = NoneGot

\* what no step of this variant touches
fetchIdle ==
  <<endpoints, parsedCh, parseWg, errWg, parsed, aggregated, enriched, wpc, wraw, pcpc,
    epc, fetchErr, parseErr, tally, received, merges, merged, printed, lockVars,
    selectVars, enrichedCh, upc>>

\* the endpoints main's loop has not started a goroutine for yet
FoUnstarted == {i \in DOMAIN endpoints : fpc[endpoints[i]] = "idle"}

\* for _, e := range endpoints { wg.Add(1); go FetchData(e, ch, errCh, &wg) }: one round
FoSpawn ==
  /\ Running
  /\ mpc = "spawn"
  /\ FoUnstarted # {}
  /\ LET i == CHOOSE j \in FoUnstarted : \A k \in FoUnstarted : j <= k
     IN fpc' = [fpc EXCEPT ![endpoints[i]] = "get"]
  /\ wg' = wg + 1
  /\ UNCHANGED <<rawCh, errCh, mpc, fmsg, rcpc, panicked, sent, got, fetchIdle>>

\* the loop has ended; go func() { wg.Wait(); close(ch); close(errCh) }()
FoStartCloser ==
  /\ Running
  /\ mpc = "spawn"
  /\ FoUnstarted = {}
  /\ rcpc' = "wait"
  /\ mpc' = "first"
  /\ UNCHANGED <<rawCh, errCh, wg, fpc, fmsg, panicked, sent, got, fetchIdle>>

\* client.Get(endpoint) and io.ReadAll(res.Body)
FoFetchGet(e) ==
  /\ Running
  /\ fpc[e] = "get"
  /\ \E out \in FetchOutcomes(e) : fmsg' = [fmsg EXCEPT ![e] = out]
  /\ fpc' = [fpc EXCEPT ![e] = "send"]
  /\ UNCHANGED <<rawCh, errCh, wg, mpc, rcpc, panicked, sent, got, fetchIdle>>

\* errCh <- fmt.Errorf(...); return   and   ch <- data
FoFetchSend(e) ==
  /\ Running
  /\ fpc[e] = "send"
  /\ LET out == fmsg[e]
         ferr == FoError(e, out)
     IN /\ FoErrorPath(out) => CanSend(errCh)
        /\ FoDataPath(out) => CanSend(rawCh)
        /\ errCh' = IF FoErrorPath(out) THEN Send(errCh, ferr) ELSE errCh
        /\ rawCh' = IF FoDataPath(out) THEN Send(rawCh, out.body) ELSE rawCh
        /\ panicked' = ((FoErrorPath(out) /\ errCh.closed) \/ (FoDataPath(out) /\ rawCh.closed))
        /\ sent' = NoteRaw(NoteErr(sent, ferr, FoErrorPath(out)), RawResponse(e, out.body),
                           FoDataPath(out))
  /\ fpc' = [fpc EXCEPT ![e] = "sent"]
  /\ UNCHANGED <<wg, mpc, fmsg, rcpc, got, fetchIdle>>

\* the "took" line and the deferred wg.Done()
FoFetchDone(e) ==
  /\ Running
  /\ fpc[e] = "sent"
  /\ wg' = wg - 1
  /\ fpc' = [fpc EXCEPT ![e] = "done"]
  /\ UNCHANGED <<rawCh, errCh, mpc, fmsg, rcpc, panicked, sent, got, fetchIdle>>

\* faulty variant: close(ch) without wg.Wait()
FoCloseCh_NoWait ==
  /\ Running
  /\ rcpc = "wait"
  /\ rawCh' = Close(rawCh)
  /\ panicked' = rawCh.closed
  /\ rcpc' = "closeErr"
  /\ UNCHANGED <<errCh, wg, mpc, fpc, fmsg, sent, got, fetchIdle>>

\* the closing goroutine: wg.Wait(); close(ch)
FoCloseCh ==
  /\ Running
  /\ rcpc = "wait"
  /\ WaitReturns(wg)
  /\ rawCh' = Close(rawCh)
  /\ panicked' = rawCh.closed
  /\ rcpc' = "closeErr"
  /\ UNCHANGED <<errCh, wg, mpc, fpc, fmsg, sent, got, fetchIdle>>

\* the closing goroutine: close(errCh)
FoCloseErr ==
  /\ Running
  /\ rcpc = "closeErr"
  /\ errCh' = Close(errCh)
  /\ panicked' = errCh.closed
  /\ rcpc' = "done"
  /\ UNCHANGED <<rawCh, wg, mpc, fpc, fmsg, sent, got, fetchIdle>>

\* for data := range ch { "Received %d bytes" }
FoFirst ==
  /\ Running
  /\ mpc = "first"
  /\ CanRecv(rawCh) \/ Drained(rawCh)
  /\ IF CanRecv(rawCh)
       THEN /\ got' = [got EXCEPT !.data = Append(@, Head(rawCh.buf))]
            /\ rawCh' = Recv(rawCh)
            /\ UNCHANGED mpc
       ELSE /\ mpc' = "errs"
            /\ UNCHANGED <<got, rawCh>>
  /\ UNCHANGED <<errCh, wg, fpc, fmsg, rcpc, panicked, sent, fetchIdle>>

\* for err := range errCh { "Error: %v" }
FoErrs ==
  /\ Running
  /\ mpc = "errs"
  /\ CanRecv(errCh) \/ Drained(errCh)
  /\ IF CanRecv(errCh)
       THEN /\ got' = [got EXCEPT !.errs = Append(@, Head(errCh.buf))]
            /\ errCh' = Recv(errCh)
            /\ UNCHANGED mpc
       ELSE /\ mpc' = "final"
            /\ UNCHANGED <<got, errCh>>
  /\ UNCHANGED <<rawCh, wg, fpc, fmsg, rcpc, panicked, sent, fetchIdle>>

\* for data := range ch { "Data preview:" }; main returns after the loop
FoFinal ==
  /\ Running
  /\ mpc = "final"
  /\ CanRecv(rawCh) \/ Drained(rawCh)
  /\ IF CanRecv(rawCh)
       THEN /\ got' = [got EXCEPT !.final = Append(@, Head(rawCh.buf))]
            /\ rawCh' = Recv(rawCh)
            /\ UNCHANGED mpc
       ELSE /\ mpc' = "done"
            /\ UNCHANGED <<got, rawCh>>
  /\ UNCHANGED <<errCh, wg, fpc, fmsg, rcpc, panicked, sent, fetchIdle>>

NextFetch ==
  \/ FoSpawn
  \/ FoStartCloser
  \/ \E e \in Eps : FoFetchGet(e)
  \/ \E e \in Eps : FoFetchSend(e)
  \/ \E e \in Eps : FoFetchDone(e)
  \/ FoCloseCh
  \/ FoCloseErr
  \/ FoFirst
  \/ FoErrs
  \/ FoFinal

SpecFetch == InitFetch /\ [][NextFetch]_vars

\* goroutines that are able to run keep running
FairSpecFetch == SpecFetch /\ WF_vars(NextFetch)

(***************************************************************************)
(* The single-parser variant (src/main.go): the fetch stage, one parsing   *)
(* goroutine that decodes inline and sends fmt.Errorf errors on errCh, the *)
(* goroutine closing parsedCh and errCh, and main ranging over parsedCh    *)
(* and then over errCh.  There is no error-reporting goroutine.            *)
(***************************************************************************)
\* the one parsing goroutine
TheParser == 1

\* faulty variant: errCh made without a capacity
OneErrCap_Unbuffered(n) == 0

\* errCh := make(chan error, len(endpoints))
OneErrCap(n) == n

\* the early returns of fetchData: client.Get or io.ReadAll gave an error
OneErrorPath(out) == out.kind \in {"neterr", "timeout", "readerr"}

\* ch <- RawResponse{...} is reached when no early return was taken
OneRawPath(out) == ~OneErrorPath(out)

\* the error fetchData sends for an outcome
OneFetchError(e, out) ==
  IF out.kind = "readerr" THEN Errorf("read", e, out.kind) ELSE Errorf("fetch", e, out.kind)

InitOne ==
  /\ endpoints \in EndpointLists
  /\ rawCh = MakeChan(Len(endpoints))
  /\ parsedCh = MakeChan(Len(endpoints))
  /\ errCh = MakeChan(OneErrCap(Len(endpoints)))
  /\ wg = 0 /\ parseWg = 0 /\ errWg = 0
  /\ mpc = "fetchStage"
  /\ parsed = NoMsg
  /\ aggregated = NewAggregatedData
  /\ enriched = <<>>
  /\ fpc = [e \in Eps |-> "idle"]
  /\ fmsg = [e \in Eps |-> Pending]
  /\ rcpc = "idle"
  /\ wpc = [w \in Workers |-> "idle"]
  /\ wraw = [w \in Workers |-> NoMsg]
  /\ pcpc = "idle"
  /\ epc = "idle"
  /\ fetchErr = 0 /\ parseErr = 0
  /\ tally = NoTally
  /\ panicked = FALSE
  /\ sent = [e \in Eps |-> NoSent]
  /\ received = [e \in Eps |-> <<>>]
  /\ merges = [e \in Eps |-> 0]
  /\ merged = NoneMerged
  /\ printed = <<>>
  /\ mu = RWMutex
  /\ gs = <<>>
  /\ processed = 0 /\ rawNil = FALSE /\ errNil = FALSE
  /\ mraw = NoMsg
  /\ enrichedCh = MakeChan(0)
  /\ upc = <<>>
  /\ got = NoneGot

\* what no step of this variant touches
oneIdle ==
  <<endpoints, errWg, parsed, aggregated, enriched, epc, fetchErr, parseErr, tally,
    received, merges, merged, printed, lockVars, selectVars, enrichedCh, upc>>

\* wg.Add(len(endpoints)); go fetchData(e, ...) for each e; go func() { wg.Wait(); close(rawCh) }()
OneFetchStage ==
  /\ Running
  /\ mpc = "fetchStage"
  /\ wg' = wg + Len(endpoints)
  /\ fpc' = [e \in Eps |-> "get"]
  /\ rcpc' = "wait"
  /\ mpc' = "parseStage"
  /\ UNCHANGED <<rawCh, parsedCh, errCh, parseWg, fmsg, wpc, wraw, pcpc, panicked, sent,
                 got, oneIdle>>

\* parseWg.Add(1); the parsing goroutine; the goroutine closing parsedCh and errCh
OneParseStage ==
  /\ Running
  /\ mpc = "parseStage"
  /\ parseWg' = parseWg + 1
  /\ wpc' = [wpc EXCEPT ![TheParser] = "recv"]
  /\ pcpc' = "wait"
  /\ mpc' = "recv"
  /\ UNCHANGED <<rawCh, parsedCh, errCh, wg, fpc, fmsg, rcpc, wraw, panicked, sent, got,
                 oneIdle>>

\* client.Get(endpoint) and io.ReadAll(res.Body)
OneFetchGet(e) ==
  /\ Running
  /\ fpc[e] = "get"
  /\ \E out \in FetchOutcomes(e) : fmsg' = [fmsg EXCEPT ![e] = out]
  /\ fpc' = [fpc EXCEPT ![e] = "send"]
  /\ UNCHANGED <<rawCh, parsedCh, errCh, wg, parseWg, mpc, rcpc, wpc, wraw, pcpc,
                 panicked, sent, got, oneIdle>>

\* errCh <- fmt.Errorf(...); return   and   ch <- RawResponse{...}
OneFetchSend(e) ==
  /\ Running
  /\ fpc[e] = "send"
  /\ LET out == fmsg[e]
         ferr == OneFetchError(e, out)
         rr == RawResponse(e, out.body)
     IN /\ OneErrorPath(out) => CanSend(errCh)
        /\ OneRawPath(out) => CanSend(rawCh)
        /\ errCh' = IF OneErrorPath(out) THEN Send(errCh, ferr) ELSE errCh
        /\ rawCh' = IF OneRawPath(out) THEN Send(rawCh, rr) ELSE rawCh
        /\ panicked' = ((OneErrorPath(out) /\ errCh.closed) \/ (OneRawPath(out) /\ rawCh.closed))
        /\ sent' = NoteRaw(NoteErr(sent, ferr, OneErrorPath(out)), rr, OneRawPath(out))
  /\ fpc' = [fpc EXCEPT ![e] = "sent"]
  /\ UNCHANGED <<parsedCh, wg, parseWg, mpc, fmsg, rcpc, wpc, wraw, pcpc, got, oneIdle>>

\* the "took" line and the deferred wg.Done()
OneFetchDone(e) ==
  /\ Running
  /\ fpc[e] = "sent"
  /\ wg' = wg - 1
  /\ fpc' = [fpc EXCEPT ![e] = "done"]
  /\ UNCHANGED <<rawCh, parsedCh, errCh, parseWg, mpc, fmsg, rcpc, wpc, wraw, pcpc,
                 panicked, sent, got, oneIdle>>

\* go func() { wg.Wait(); close(rawCh) }()
OneCloseRaw ==
  /\ Running
  /\ rcpc = "wait"
  /\ WaitReturns(wg)
  /\ rawCh' = Close(rawCh)
  /\ panicked' = rawCh.closed
  /\ rcpc' = "done"
  /\ UNCHANGED <<parsedCh, errCh, wg, parseWg, mpc, fpc, fmsg, wpc, wraw, pcpc, sent, got,
                 oneIdle>>

\* for raw := range rawCh: the next receive, or the end of the loop and
\* the deferred parseWg.Done()
OneParserRecv ==
  /\ Running
  /\ wpc[TheParser] = "recv"
  /\ CanRecv(rawCh) \/ Drained(rawCh)
  /\ IF CanRecv(rawCh)
       THEN /\ wraw' = [wraw EXCEPT ![TheParser] = Head(rawCh.buf)]
            /\ rawCh' = Recv(rawCh)
            /\ wpc' = [wpc EXCEPT ![TheParser] = "parse"]
            /\ UNCHANGED parseWg
       ELSE /\ parseWg' = parseWg - 1
            /\ wpc' = [wpc EXCEPT ![TheParser] = "done"]
            /\ UNCHANGED <<wraw, rawCh>>
  /\ UNCHANGED <<parsedCh, errCh, wg, mpc, fpc, fmsg, rcpc, pcpc, panicked, sent, got,
                 oneIdle>>

\* the switch on raw.Endpoint (no default case): json.Unmarshal into the
\* slice of the endpoint's kind, then parsedCh <- ParsedData{...} or
\* errCh <- fmt.Errorf("failed to parse ...")
OneParserParse ==
  /\ Running
  /\ wpc[TheParser] = "parse"
  /\ LET raw == wraw[TheParser]
         T == ElemOf(raw.Endpoint)
         r == Unmarshal(raw.Data, T)
         perr == Errorf("parse", raw.Endpoint, r.err)
         pd == ParsedData(r.data, raw.Endpoint)
         toErr == T # "none" /\ r.err # "nil"
         toParsed == T # "none" /\ r.err = "nil"
     IN /\ toErr => CanSend(errCh)
        /\ toParsed => CanSend(parsedCh)
        /\ errCh' = IF toErr THEN Send(errCh, perr) ELSE errCh
        /\ parsedCh' = IF toParsed THEN Send(parsedCh, pd) ELSE parsedCh
        /\ panicked' = ((toErr /\ errCh.closed) \/ (toParsed /\ parsedCh.closed))
        /\ sent' = NoteParsed(NoteErr(sent, perr, toErr), pd, toParsed)
  /\ wraw' = [wraw EXCEPT ![TheParser] = NoMsg]
  /\ wpc' = [wpc EXCEPT ![TheParser] = "recv"]
  /\ UNCHANGED <<rawCh, wg, parseWg, mpc, fpc, fmsg, rcpc, pcpc, got, oneIdle>>

\* go func() { parseWg.Wait(); close(parsedCh); ... }()
OneCloseParsed ==
  /\ Running
  /\ pcpc = "wait"
  /\ WaitReturns(parseWg)
  /\ parsedCh' = Close(parsedCh)
  /\ panicked' = parsedCh.closed
  /\ pcpc' = "closeErr"
  /\ UNCHANGED <<rawCh, errCh, wg, parseWg, mpc, fpc, fmsg, rcpc, wpc, wraw, sent, got,
                 oneIdle>>

\* ... close(errCh)
OneCloseErr ==
  /\ Running
  /\ pcpc = "closeErr"
  /\ errCh' = Close(errCh)
  /\ panicked' = errCh.closed
  /\ pcpc' = "done"
  /\ UNCHANGED <<rawCh, parsedCh, wg, parseWg, mpc, fpc, fmsg, rcpc, wpc, wraw, sent, got,
                 oneIdle>>

\* for parsed := range parsedCh { the type switch printing the records }
OneRangeParsed ==
  /\ Running
  /\ mpc = "recv"
  /\ CanRecv(parsedCh) \/ Drained(parsedCh)
  /\ IF CanRecv(parsedCh)
       THEN /\ got' = [got EXCEPT !.data = Append(@, Head(parsedCh.buf))]
            /\ parsedCh' = Recv(parsedCh)
            /\ UNCHANGED mpc
       ELSE /\ mpc' = "errs"
            /\ UNCHANGED <<got, parsedCh>>
  /\ UNCHANGED <<rawCh, errCh, wg, parseWg, fpc, fmsg, rcpc, wpc, wraw, pcpc, panicked,
                 sent, oneIdle>>

\* for err := range errCh { "ERROR: %v" }; main returns after the loop
OneRangeErr ==
  /\ Running
  /\ mpc = "errs"
  /\ CanRecv(errCh) \/ Drained(errCh)
  /\ IF CanRecv(errCh)
       THEN /\ got' = [got EXCEPT !.errs = Append(@, Head(errCh.buf))]
            /\ errCh' = Recv(errCh)
            /\ UNCHANGED mpc
       ELSE /\ mpc' = "done"
            /\ UNCHANGED <<got, errCh>>
  /\ UNCHANGED <<rawCh, parsedCh, wg, parseWg, fpc, fmsg, rcpc, wpc, wraw, pcpc, panicked,
                 sent, oneIdle>>

NextOne ==
  \/ OneFetchStage
  \/ OneParseStage
  \/ \E e \in Eps : OneFetchGet(e)
  \/ \E e \in Eps : OneFetchSend(e)
  \/ \E e \in Eps : OneFetchDone(e)
  \/ OneCloseRaw
  \/ OneParserRecv
  \/ OneParserParse
  \/ OneCloseParsed
  \/ OneCloseErr
  \/ OneRangeParsed
  \/ OneRangeErr

SpecOne == InitOne /\ [][NextOne]_vars

\* goroutines that are able to run keep running
FairSpecOne == SpecOne /\ WF_vars(NextOne)

(***************************************************************************)
(* The global-map variant.  Its parseData, getType, fetchData and main up  *)
(* to the head of the aggregation loop are, statement for statement, those *)
(* of the final pipeline, which differs only in constructing the           *)
(* AggregatedData: those steps are the actions defined above.  The variant *)
(* merges into package-level maps (held in the fields of `aggregated`;     *)
(* there is no PostsByUser or AlbumsByUser), starts one goroutine per user *)
(* that sends an EnrichedUser on enrichedCh, and ranges over enrichedCh    *)
(* before errWg.Wait().                                                    *)
(***************************************************************************)
\* the package-level map the aggregation loop files records of kind k in
GlobalMapOf(k) ==
  CASE k = "User" -> "Users"
    [] k = "Post" -> "Posts"
    [] k = "Comment" -> "Comments"
    [] k = "Album" -> "Albums"
    [] k = "Photo" -> "Photos"
    [] k = "Todo" -> "Todos"

\* one case of the type switch: usersMap[u.ID] = u, or
\* xsMap[key] = append(xsMap[key], x), for each record of the slice
RECURSIVE GlobalAdd(_, _, _)
GlobalAdd(maps, k, recs) ==
  IF recs = <<>> THEN maps
  ELSE LET r == Head(recs)
           m == GlobalMapOf(k)
           value == IF k = "User" THEN r ELSE Append(Bucket(maps[m], KeyOf(k, r)), r)
       IN GlobalAdd([maps EXCEPT ![m] = MapSet(maps[m], KeyOf(k, r), value)], k, Tail(recs))

\* switch v := parsed.Data.(type); the default case merges nothing
GlobalMerge(maps, data) ==
  IF data.elem \in Kinds THEN GlobalAdd(maps, data.elem, data.items) ELSE maps

\* the EnrichedUser an enrichment goroutine builds for the user with this id
GlobalEnriched(maps, id) ==
  [ID |-> id, Name |-> maps.Users[id].Name,
   PostCount |-> Len(Bucket(maps.Posts, id)),
   AlbumCount |-> Len(Bucket(maps.Albums, id)),
   TodoCount |-> Len(Bucket(maps.Todos, id))]

InitGlobal ==
  /\ endpoints \in EndpointLists
  /\ rawCh = MakeChan(Len(endpoints))
  /\ parsedCh = MakeChan(Len(endpoints))
  /\ errCh = MakeChan(Len(endpoints) * 2)
  /\ wg = 0 /\ parseWg = 0 /\ errWg = 0
  /\ mpc = "start"
  /\ parsed = NoMsg
  /\ aggregated = NewAggregatedData
  /\ enriched = <<>>
  /\ fpc = [e \in Eps |-> "idle"]
  /\ fmsg = [e \in Eps |-> Pending]
  /\ rcpc = "idle"
  /\ wpc = [w \in Workers |-> "idle"]
  /\ wraw = [w \in Workers |-> NoMsg]
  /\ pcpc = "idle"
  /\ epc = "idle"
  /\ fetchErr = 0 /\ parseErr = 0
  /\ tally = NoTally
  /\ panicked = FALSE
  /\ sent = [e \in Eps |-> NoSent]
  /\ received = [e \in Eps |-> <<>>]
  /\ merges = [e \in Eps |-> 0]
  /\ merged = NoneMerged
  /\ printed = <<>>
  /\ mu = RWMutex
  /\ gs = <<>>
  /\ processed = 0 /\ rawNil = FALSE /\ errNil = FALSE
  /\ mraw = NoMsg
  /\ enrichedCh = MakeChan(Cardinality(DOMAIN NewAggregatedData.Users))
  /\ upc = <<>>
  /\ got = NoneGot

\* what the tail of this main leaves alone
globalIdle ==
  <<endpoints, rawCh, parsedCh, errCh, wg, parseWg, errWg, enriched, fpc, fmsg, rcpc,
    wpc, wraw, pcpc, epc, fetchErr, parseErr, tally, panicked, sent, received,
    lockVars, selectVars>>

\* the body of the aggregation loop: the type switch over the global maps
GlobMerge ==
  /\ Running
  /\ mpc = "merge"
  /\ aggregated' = GlobalMerge(aggregated, parsed.Data)
  /\ printed' = ReportUnknown(printed, parsed)
  /\ merges' = [merges EXCEPT ![parsed.Endpoint] = @ + 1]
  /\ merged' = Merged(merged, parsed.Data)
  /\ parsed' = NoMsg
  /\ mpc' = "recv"
  /\ UNCHANGED <<globalIdle, variantVars>>

\* for _, user := range usersMap { go func(u User) { ... }(user) }
GlobSpawn ==
  /\ Running
  /\ mpc = "enrich"
  /\ upc' = [id \in DOMAIN aggregated.Users |-> "send"]
  /\ mpc' = "range"
  /\ UNCHANGED <<globalIdle, parsed, aggregated, merges, merged, printed, enrichedCh, got>>

\* main from "===== Aggregated Data =====" on.  In
\* `for enriched := range enrichedCh`, enrichedCh has the capacity
\* len(usersMap) had when it was made, which is 0: a receive takes the
\* EnrichedUser straight from an enrichment goroutine standing at
\* `enrichedCh <- enriched`, and that goroutine returns; the loop ends when
\* enrichedCh is closed and drained.  Then errWg.Wait() and the return.
GlobRangeAndWait ==
  /\ Running
  /\ CASE mpc = "range" ->
            /\ (\E id \in DOMAIN upc : upc[id] = "send") \/ Drained(enrichedCh)
            /\ IF \E id \in DOMAIN upc : upc[id] = "send"
                 THEN /\ \E id \in DOMAIN upc :
                           /\ upc[id] = "send"
                           /\ upc' = [upc EXCEPT ![id] = "done"]
                           /\ got' = [got EXCEPT !.data = Append(@, GlobalEnriched(aggregated, id))]
                      /\ UNCHANGED mpc
                 ELSE /\ mpc' = "wait"
                      /\ UNCHANGED <<upc, got>>
       [] mpc = "wait" ->
            /\ WaitReturns(errWg)
            /\ mpc' = "done"
            /\ UNCHANGED <<upc, got>>
       [] OTHER -> FALSE
  /\ UNCHANGED <<globalIdle, parsed, aggregated, merges, merged, printed, enrichedCh>>

NextGlobal ==
  \/ MainStartErrors
  \/ MainFetchStage
  \/ MainParseStage
  \/ \E e \in Eps : FetchGet(e)
  \/ \E e \in Eps : FetchSend(e)
  \/ \E e \in Eps : FetchDone(e)
  \/ CloseRaw
  \/ \E w \in Workers : WorkerRecv(w)
  \/ \E w \in Workers : WorkerParse(w)
  \/ CloseParsed
  \/ CloseErr
  \/ ErrorReporter
  \/ MainRecv
  \/ GlobMerge
  \/ GlobSpawn
  \/ GlobRangeAndWait

SpecGlobal == InitGlobal /\ [][NextGlobal]_vars

\* goroutines that are able to run keep running
FairSpecGlobal == SpecGlobal /\ WF_vars(NextGlobal)

(***************************************************************************)
(* Properties of the final pipeline (Spec).                                *)
(***************************************************************************)
Decodes(body) == body.json = "array"

AllWorkersDone == \A w \in Workers : wpc[w] = "done"

AfterDrain == mpc \in {"enrich", "wait", "done"}

\* C1: a fetchData goroutine never sends more than one message, and once it
\* has returned it has sent exactly one: the RawResponse of its endpoint on
\* rawCh or a PipelineError of stage "fetch" for its endpoint on errCh.
C1_OneFetchMessage ==
  \A e \in Eps :
    /\ sent[e].raw + sent[e].fetchErr <= 1
    /\ sent[e].otherErr = 0
    /\ fpc[e] = "done" => sent[e].raw + sent[e].fetchErr = 1

C1_Witness ==
  \E e1, e2 \in Eps :
    /\ fpc[e1] = "done" /\ sent[e1].raw = 1 /\ sent[e1].fetchErr = 0
    /\ fpc[e2] = "done" /\ sent[e2].raw = 0 /\ sent[e2].fetchErr = 1

\* C2: an endpoint never gets more parse results than RawResponses sent, and
\* once parsedCh and errCh are closed every endpoint whose RawResponse was
\* sent has exactly one: a ParsedData when its body decodes, a PipelineError
\* of stage "parse" when it does not.
C2_OneParseResult ==
  \A e \in Eps :
    /\ sent[e].parsed + sent[e].parseErr <= sent[e].raw
    /\ (parsedCh.closed /\ errCh.closed /\ sent[e].raw = 1) =>
         /\ sent[e].parsed + sent[e].parseErr = 1
         /\ sent[e].parsed = 1 <=> Decodes(fmsg[e].body)

C2_Witness ==
  /\ parsedCh.closed /\ errCh.closed
  /\ \E e1, e2 \in Eps :
       /\ sent[e1].raw = 1 /\ sent[e1].parsed = 1 /\ sent[e1].parseErr = 0
       /\ sent[e2].raw = 1 /\ sent[e2].parsed = 0 /\ sent[e2].parseErr = 1

\* C3: rawCh is closed only when every fetchData goroutine has returned, and
\* no goroutine ever sends on a closed channel.
C3_RawClosedAfterFetch ==
  /\ rawCh.closed => \A e \in Eps : fpc[e] = "done"
  /\ ~panicked

C3_Witness ==
  /\ rawCh.closed
  /\ Len(endpoints) = MaxEndpoints
  /\ \E e \in Eps : sent[e].raw = 1

\* C4: parsedCh and errCh are closed only when every parse worker has
\* returned; a worker returns only when rawCh is closed and every RawResponse
\* sent on it has been received; by then every fetchData goroutine has sent
\* its message, and no goroutine ever sends on a closed channel.
C4_ParsedClosedAfterWorkers ==
  /\ (parsedCh.closed \/ errCh.closed) => AllWorkersDone
  /\ \A w \in Workers :
       wpc[w] = "done" =>
         /\ rawCh.closed /\ rawCh.buf = <<>>
         /\ \A e \in Eps : Len(received[e]) = sent[e].raw
         /\ \A e \in Eps : fpc[e] = "done"
  /\ errCh.closed => parsedCh.closed
  /\ ~panicked

C4_Witness ==
  /\ parsedCh.closed /\ errCh.closed
  /\ \E e1, e2 \in Eps : sent[e1].parsed = 1 /\ sent[e2].fetchErr = 1

\* C5: a RawResponse is received by at most one worker, and when all workers
\* have returned every RawResponse sent has been received and decoded by
\* exactly one of them.
C5_OneWorkerPerPayload ==
  \A e \in Eps :
    /\ Len(received[e]) <= sent[e].raw
    /\ Len(received[e]) <= 1
    /\ AllWorkersDone =>
         /\ Len(received[e]) = sent[e].raw
         /\ sent[e].parsed + sent[e].parseErr = Len(received[e])

C5_Witness ==
  /\ AllWorkersDone
  /\ \E e1, e2 \in Eps :
       /\ Len(received[e1]) = 1 /\ Len(received[e2]) = 1
       /\ received[e1] # received[e2]

\* C6: main calls GetEnrichedUsers only when parsedCh is closed and empty and
\* every ParsedData sent has been merged exactly once; from then on main is
\* in no Add* call and makes none.
C6_EnrichAfterMerges ==
  /\ enriched # <<>> => AfterDrain
  /\ AfterDrain =>
       /\ parsedCh.closed /\ parsedCh.buf = <<>>
       /\ parsed = NoMsg
       /\ \A e \in Eps : merges[e] = sent[e].parsed /\ merges[e] <= 1

C6_Witness ==
  /\ mpc = "wait" /\ Len(enriched) = 1
  /\ \E e1, e2 \in Eps : e1 # e2 /\ merges[e1] = 1 /\ merges[e2] = 1

\* the sum of the sizes of the buckets of a bucket map
BucketTotal(m) == SetSum(DOMAIN m, [k \in DOMAIN m |-> Len(m[k])])

\* the records of all ParsedData messages sent
ParsedRecordTotal ==
  SetSum(Eps, [e \in Eps |->
                 IF sent[e].parsed > 0 /\ Decodes(fmsg[e].body)
                   THEN sent[e].parsed * Len(fmsg[e].body.items) ELSE 0])

PrimaryTotal(ad) ==
  Cardinality(DOMAIN ad.Users) + BucketTotal(ad.Posts) + BucketTotal(ad.Albums)
    + BucketTotal(ad.Todos) + BucketTotal(ad.Comments) + BucketTotal(ad.Photos)

HTTPSuccess(status) == status \in 200..299

FetchFailed(out) == out.kind \in {"neterr", "timeout", "readerr"} \/ ~HTTPSuccess(out.status)

RECURSIVE StoreOf(_, _)
StoreOf(eps, good) ==
  IF eps = <<>> THEN NewAggregatedData
  ELSE LET e == eps[Len(eps)]
           rest == StoreOf(SubSeq(eps, 1, Len(eps) - 1), good)
       IN IF e \in good
            THEN Merge(rest, [elem |-> ElemOf(e), items |-> fmsg[e].body.items])
            ELSE rest

\* C10: the totals the error-reporting goroutine prints are the number of
\* sources whose fetch failed and the number of fetched sources whose decode
\* failed, and after the aggregation loop the store holds the records of
\* exactly the sources that were fetched and decoded.
C10_TallyAndStore ==
  /\ tally # NoTally =>
       /\ tally.fetch = Cardinality({e \in Eps : FetchFailed(fmsg[e])})
       /\ tally.parse = Cardinality({e \in Eps : ~FetchFailed(fmsg[e]) /\ ~Decodes(fmsg[e].body)})
  /\ AfterDrain =>
       aggregated = StoreOf(endpoints, {e \in Eps : ~FetchFailed(fmsg[e]) /\ Decodes(fmsg[e].body)})

\* C11: under fair scheduling, whatever the fetch and decode outcomes, every
\* fetchData goroutine completes, main calls GetEnrichedUsers once and main
\* returns (so no reachable state before the return of main is a deadlock).
C11_PipelineTerminates ==
  <>(mpc = "done" /\ Len(enriched) = 1 /\ \A e \in Eps : fpc[e] = "done")

C11_Witness ==
  /\ mpc = "done" /\ Len(enriched) = 1
  /\ Len(endpoints) = MaxEndpoints
  /\ \A e \in Eps : sent[e].fetchErr = 1
  /\ enriched[1] = <<>>

\* C12: run with an empty endpoints list, main returns, GetEnrichedUsers
\* returned no summaries and the totals printed are 0 fetch errors and 0
\* parse errors.
C12_EmptyListTerminates ==
  (endpoints = <<>>) =>
    <>(/\ mpc = "done"
       /\ enriched = << <<>> >>
       /\ tally = [fetch |-> 0, parse |-> 0])

C12_Witness ==
  /\ endpoints = <<>>
  /\ rawCh.cap = 0 /\ parsedCh.cap = 0 /\ errCh.cap = 0
  /\ mpc = "done"
  /\ tally = [fetch |-> 0, parse |-> 0]

\* C13: a fetchData whose response has a non-success status has, when it
\* returns, sent one PipelineError of stage "fetch" on errCh and no
\* RawResponse on rawCh.
C13_StatusIsFetchError ==
  \A e \in Eps :
    (fpc[e] = "done" /\ fmsg[e].kind = "resp" /\ ~HTTPSuccess(fmsg[e].status)) =>
      (sent[e].fetchErr = 1 /\ sent[e].raw = 0)

TotalSent(field) == SetSum(Eps, [e \in Eps |-> sent[e][field]])

\* C14: main returns only when the error-reporting goroutine has finished,
\* and that goroutine prints its totals only when errCh is closed and every
\* PipelineError sent on it has been received and counted.
C14_ReporterBeforeReturn ==
  /\ mpc = "done" => epc = "done"
  /\ epc = "done" <=> tally # NoTally
  /\ tally # NoTally =>
       /\ errCh.closed /\ errCh.buf = <<>>
       /\ tally.fetch = TotalSent("fetchErr")
       /\ tally.parse = TotalSent("parseErr")
       /\ TotalSent("otherErr") = 0

C14_Witness ==
  /\ mpc = "done"
  /\ tally.fetch = 1 /\ tally.parse = 1

\* C17: rawCh never holds more than len(endpoints) messages, no more than
\* len(endpoints) RawResponses are ever sent, and a fetchData goroutine about
\* to send its RawResponse finds room in rawCh.
C17_RawChNeverFull ==
  /\ Len(rawCh.buf) <= Len(endpoints)
  /\ rawCh.cap = Len(endpoints)
  /\ TotalSent("raw") <= Len(endpoints)
  /\ \A e \in Eps :
       (fpc[e] = "send" /\ FetchRawPath(fmsg[e])) => Len(rawCh.buf) < rawCh.cap

C17_Witness ==
  /\ Len(endpoints) = MaxEndpoints
  /\ Len(rawCh.buf) = Len(endpoints)
  /\ \A e \in Eps : received[e] = <<>>
  /\ \A w \in Workers : wpc[w] = "idle"

\* C25: parsedCh never holds more than len(endpoints) messages and errCh
\* never more than 2*len(endpoints); no more than that many are ever sent on
\* them, so a parse worker or a fetchData goroutine about to send on
\* parsedCh or errCh finds room, whether or not anything was received.
C25_ParsedAndErrNeverFull ==
  /\ parsedCh.cap = Len(endpoints) /\ errCh.cap = 2 * Len(endpoints)
  /\ Len(parsedCh.buf) <= Len(endpoints)
  /\ Len(errCh.buf) <= 2 * Len(endpoints)
  /\ TotalSent("parsed") <= Len(endpoints)
  /\ TotalSent("fetchErr") + TotalSent("parseErr") + TotalSent("otherErr") <= 2 * Len(endpoints)
  /\ \A e \in Eps :
       (fpc[e] = "send" /\ FetchErrorPath(fmsg[e])) =>
         TotalSent("fetchErr") + TotalSent("parseErr") < errCh.cap
  /\ \A w \in Workers :
       wpc[w] = "parse" =>
         /\ TotalSent("parsed") < parsedCh.cap
         /\ TotalSent("fetchErr") + TotalSent("parseErr") < errCh.cap

\* every source was parsed before main or the reporter received anything:
\* parsedCh is full
C25_Witness ==
  /\ Len(endpoints) = MaxEndpoints
  /\ Len(parsedCh.buf) = parsedCh.cap
  /\ TotalSent("parsed") = MaxEndpoints
  /\ SetSum(Eps, merges) = 0
  /\ parsed = NoMsg

\* C18: a ParsedData whose Data is none of the six record slices, received
\* by the aggregation loop, is merged into no index (the store and the set
\* of merged records stay as they were) and is reported: one "Unknown type
\* for endpoint" line naming its endpoint is printed.
C18_UnknownTypeReported ==
  [][(mpc = "merge" /\ parsed.Data.elem \notin Kinds) =>
       /\ aggregated' = aggregated
       /\ merged' = merged
       /\ printed' = Append(printed, parsed.Endpoint)]_vars

\* the loop has ended having met one value of an unknown type among batches it merged
C18_Witness ==
  /\ mpc = "done"
  /\ Len(printed) = 1
  /\ aggregated # NewAggregatedData
  /\ SetSum(Eps, merges) = 2

(***************************************************************************)
(* Properties of concurrent calls into one AggregatedData (SpecLock).      *)
(***************************************************************************)
Writers == {g \in Goroutines : gs[g].op \in Kinds}

Readers == {g \in Goroutines : gs[g].op = "GetEnrichedUsers"}

\* inside the critical section of its Add*
Writing(g) == g \in Writers /\ gs[g].pc \in {"load", "store", "unlock"}

\* inside GetEnrichedUsers, holding the read lock
Reading(g) == g \in Readers /\ gs[g].pc \in {"read", "runlock"}

HasRecord(ad, k, field, r) ==
  IF field = "Users"
    THEN r.ID \in DOMAIN ad.Users /\ ad.Users[r.ID] = r
    ELSE r \in Range(Bucket(ad[field], KeyOf(k, r)))

\* the batch of writer w is in every index it feeds / in none of them
BatchIn(ad, w) ==
  \A i \in DOMAIN gs[w].batch, f \in DOMAIN Fields(gs[w].op) :
    HasRecord(ad, gs[w].op, Fields(gs[w].op)[f], gs[w].batch[i])

BatchOut(ad, w) ==
  \A i \in DOMAIN gs[w].batch, f \in DOMAIN Fields(gs[w].op) :
    ~HasRecord(ad, gs[w].op, Fields(gs[w].op)[f], gs[w].batch[i])

\* C15: at most one Add* is inside its critical section, no GetEnrichedUsers
\* runs while one is, and the store a GetEnrichedUsers call worked on holds
\* each batch whole or not at all (Posts and PostsByUser, Albums and
\* AlbumsByUser agreeing), for every interleaving of the calls.
C15_ReadersSeeWholeBatches ==
  /\ Cardinality({g \in Goroutines : Writing(g)}) <= 1
  /\ (\E w \in Goroutines : Writing(w)) => ~\E r \in Goroutines : Reading(r)
  /\ \A r \in Readers :
       gs[r].pc \in {"runlock", "done"} =>
         /\ gs[r].seen.Posts = gs[r].seen.PostsByUser
         /\ gs[r].seen.Albums = gs[r].seen.AlbumsByUser
         /\ \A w \in Writers : BatchIn(gs[r].seen, w) \/ BatchOut(gs[r].seen, w)

\* a GetEnrichedUsers call ran between two AddPosts calls: it saw the batch
\* of the first whole and nothing of the second
C15_Witness ==
  \E r \in Readers : \E w1, w2 \in Writers :
    /\ w1 # w2
    /\ gs[w1].op = "Post" /\ gs[w2].op = "Post"
    /\ \A g \in Goroutines : gs[g].pc = "done"
    /\ BatchIn(gs[r].seen, w1)
    /\ BatchOut(gs[r].seen, w2)
    /\ BatchIn(aggregated, w2)

\* the batches of the writers merged one call after the other, in `order`
RECURSIVE MergeAll(_, _)
MergeAll(ad, order) ==
  IF order = <<>> THEN ad
  ELSE MergeAll(Merge(ad, [elem |-> gs[Head(order)].op, items |-> gs[Head(order)].batch]),
                Tail(order))

FieldKind(field) ==
  CASE field \in {"Posts", "PostsByUser"} -> "Post"
    [] field \in {"Albums", "AlbumsByUser"} -> "Album"
    [] field = "Todos" -> "Todo"
    [] field = "Comments" -> "Comment"
    [] field = "Photos" -> "Photo"

\* records of kind k over all the batches
BatchRecords(k) ==
  LET ws == {w \in Writers : gs[w].op = k}
  IN SetSum(ws, [w \in ws |-> Len(gs[w].batch)])

\* C16: once all the concurrent Add* calls have returned, every bucket map
\* holds as many records as the batches of its kind had (no lost update),
\* and the store is the one some sequential order of the same calls gives.
C16_NoLostUpdate ==
  (\A g \in Goroutines : gs[g].pc = "done") =>
    /\ \A field \in {"Posts", "PostsByUser", "Albums", "AlbumsByUser", "Todos",
                     "Comments", "Photos"} :
         BucketTotal(aggregated[field]) = BatchRecords(FieldKind(field))
    /\ Cardinality(DOMAIN aggregated.Users) = BatchRecords("User")
    /\ \E order \in Perms(Writers) : aggregated = MergeAll(NewAggregatedData, order)

\* all the goroutines have appended to the same buckets of Posts
C16_Witness ==
  /\ \A g \in Goroutines : gs[g].op = "Post" /\ gs[g].pc = "done"
  /\ Len(Bucket(aggregated.Posts, 1)) = NumGoroutines
  /\ Len(Bucket(aggregated.PostsByUser, LockBatchLen)) = NumGoroutines

(***************************************************************************)
(* Properties of the select-loop variant (SpecSelect).                     *)
(***************************************************************************)
\* C19: in the select-loop variant rawCh is closed only after every
\* fetchData goroutine has returned, so that none of them sends on the
\* closed rawCh, under every interleaving.
C19_SelRawClosedAfterFetch ==
  rawCh.closed => \A e \in Eps : fpc[e] = "done"

\* C20: in the select-loop variant main closes errCh only after every
\* fetchData goroutine has finished sending and every received payload has
\* been parsed, so that no goroutine sends on the closed errCh, for every
\* combination of fetch and decode outcomes and every interleaving.
C20_SelErrClosedAfterSenders ==
  errCh.closed => (mraw = NoMsg /\ \A e \in Eps : fpc[e] \in {"sent", "done"})

\* main has left the loop `for processed < totalExpected`
SelLoopExited ==
  \/ mpc = "select" /\ ~SelLooping
  \/ mpc \in {"closeParsed", "range", "done"}

\* C23: in the select-loop variant, once main's loop has exited every
\* endpoint has been accounted for exactly once: its RawResponse was
\* received and parsed into one ParsedData or one parse error, or its fetch
\* error was received and printed; no payload is left unparsed in rawCh.
C23_SelEveryEndpointAccounted ==
  SelLoopExited =>
    /\ rawCh.buf = <<>>
    /\ mraw = NoMsg
    /\ \A e \in Eps :
         \/ /\ sent[e].raw = 1 /\ sent[e].fetchErr = 0
            /\ sent[e].parsed + sent[e].parseErr = 1
         \/ /\ sent[e].fetchErr = 1 /\ sent[e].raw = 0
            /\ \A i \in DOMAIN errCh.buf :
                 ~(errCh.buf[i].Endpoint = e /\ errCh.buf[i].Stage = "fetch")

(***************************************************************************)
(* Properties of the fetch-only variant (FairSpecFetch).                   *)
(***************************************************************************)
TotalErrors == TotalSent("fetchErr") + TotalSent("parseErr") + TotalSent("otherErr")

\* in every state: ch and errCh are closed only once every FetchData has
\* returned, no send panicked, a FetchData about to send finds room, every
\* message sent is in its channel or was received once by its loop, and the
\* final loop received nothing
FoSafe ==
  /\ (rawCh.closed \/ errCh.closed) => \A e \in Eps : fpc[e] = "done"
  /\ ~panicked
  /\ \A e \in Eps :
       fpc[e] = "send" =>
         IF FoErrorPath(fmsg[e]) THEN Len(errCh.buf) < errCh.cap
                                 ELSE Len(rawCh.buf) < rawCh.cap
  /\ Len(got.data) + Len(rawCh.buf) = TotalSent("raw")
  /\ Len(got.errs) + Len(errCh.buf) = TotalErrors
  /\ got.final = <<>>
  /\ mpc = "done" => (rawCh.buf = <<>> /\ errCh.buf = <<>>)

\* C22: in the fetch-only variant ch and errCh are closed only after every
\* FetchData goroutine has returned, no FetchData blocks on or panics at a
\* send, and main terminates having received every payload once in its first
\* loop and every error once, its final loop over ch receiving nothing.
C22_FetchOnlyDrainsAndEnds == []FoSafe /\ <>(mpc = "done")

\* main has returned after one payload and one error
C22_Witness ==
  /\ mpc = "done"
  /\ Len(got.data) = 1 /\ Len(got.errs) = 1 /\ got.final = <<>>
  /\ TotalSent("raw") = 1 /\ TotalErrors = 1

(***************************************************************************)
(* Properties of the single-parser variant (FairSpecOne).                  *)
(***************************************************************************)
\* in every state: each endpoint has yielded at most one error, so no more
\* than len(endpoints) errors were sent; a goroutine about to send an error
\* finds room in errCh though nothing is read from it before parsedCh is
\* closed; and once main has returned it has printed every error sent
OneSafe ==
  /\ errCh.cap = Len(endpoints)
  /\ \A e \in Eps : sent[e].fetchErr + sent[e].otherErr + sent[e].parseErr <= 1
  /\ TotalErrors <= Len(endpoints)
  /\ Len(errCh.buf) <= errCh.cap
  /\ \A e \in Eps : (fpc[e] = "send" /\ OneErrorPath(fmsg[e])) => TotalErrors < errCh.cap
  /\ wpc[TheParser] = "parse" => TotalErrors < errCh.cap
  /\ got.errs # <<>> => parsedCh.closed
  /\ ~panicked
  /\ mpc = "done" => (errCh.buf = <<>> /\ Len(got.errs) = TotalErrors)

\* C24: in the single-parser variant at most len(endpoints) errors are ever
\* sent (each endpoint yields at most one fetch or parse error), so no send
\* on errCh, of capacity len(endpoints) and read only after parsedCh is
\* closed, ever blocks, and main terminates having printed every error sent.
C24_OneErrChSuffices == []OneSafe /\ <>(mpc = "done")

\* main has returned after a fetch error and a parse error: errCh was full
C24_Witness ==
  /\ mpc = "done"
  /\ Len(endpoints) = MaxEndpoints
  /\ TotalSent("parseErr") = 1
  /\ Len(got.errs) = MaxEndpoints
  /\ got.data = <<>>

(***************************************************************************)
(* Properties of the global-map variant (FairSpecGlobal).                  *)
(***************************************************************************)
\* C21: in the global-map variant, for every combination of fetch and decode
\* outcomes and under fair scheduling, main eventually finishes receiving
\* the enriched users from enrichedCh, passes errWg.Wait() and returns.
C21_GlobalTerminates == <>(mpc = "done")

(***************************************************************************)
(* Properties of the store (SpecStore).                                    *)
(***************************************************************************)
\* the summary of user u counted from the records handed to Add*
SummaryOf(u) ==
  [ID |-> u.ID, Name |-> u.Name,
   PostCount |-> Cardinality({p \in merged["Post"] : p.UserID = u.ID}),
   AlbumCount |-> Cardinality({a \in merged["Album"] : a.UserID = u.ID}),
   TodoCount |-> Cardinality({t \in merged["Todo"] : t.UserID = u.ID}),
   CommentCount |->
     Cardinality({c \in merged["Comment"] :
                    \E p \in merged["Post"] : p.ID = c.PostID /\ p.UserID = u.ID}),
   PhotoCount |->
     Cardinality({ph \in merged["Photo"] :
                    \E a \in merged["Album"] : a.ID = ph.AlbumID /\ a.UserID = u.ID})]

\* C8: GetEnrichedUsers returns one EnrichedUser per merged user and no
\* other; its PostCount, AlbumCount and TodoCount are the numbers of merged
\* posts, albums and todos of that user, its CommentCount the number of
\* merged comments on that user's posts, its PhotoCount the number of merged
\* photos in that user's albums.
C8_EnrichedCounts ==
  \A c \in DOMAIN enriched :
    LET r == enriched[c] IN
    /\ Len(r) = Cardinality(merged["User"])
    /\ \A u \in merged["User"] :
         /\ Cardinality({j \in DOMAIN r : r[j].ID = u.ID}) = 1
         /\ \E j \in DOMAIN r : r[j] = SummaryOf(u)

C8_Witness ==
  /\ mpc = "store"
  /\ merged["User"] = {User(1)}
  /\ merged["Post"] = {Post(1, 1), Post(2, 1), Post(3, 1)}
  /\ \A k \in Kinds \ {"User", "Post"} : merged[k] = {}
  /\ enriched # <<>>
  /\ enriched[1] = <<[ID |-> 1, Name |-> NameOf(1), PostCount |-> 3, AlbumCount |-> 0,
                      TodoCount |-> 0, CommentCount |-> 0, PhotoCount |-> 0]>>

\* C9: two GetEnrichedUsers calls in a row, with no Add* call in between,
\* return the same set of EnrichedUser values, whatever order each call
\* ranged over the Users map in.
C9_EnrichTwice ==
  \A c, d \in DOMAIN enriched : Range(enriched[c]) = Range(enriched[d])

C9_Witness ==
  /\ mpc = "store"
  /\ Len(enriched) = 2
  /\ enriched[1] # enriched[2]
  /\ \E j \in DOMAIN enriched[1] : enriched[1][j].CommentCount > 0

====
